---------------------------- MODULE Spec2Model ----------------------------
(***************************************************************************)
(* Collaboration protocol handler of the inspection-report application     *)
(* (src/src/app/api/setup/route.ts, lines 75-396): the shared-session      *)
(* store and the action-multiplexed POST handler.                          *)
(*                                                                         *)
(* Time is Date.now() in milliseconds.  A handler is split at its awaits:  *)
(* the findUnique read, the write-back (update), and the response that is  *)
(* built after the write-back resolved.  Synchronous code between two      *)
(* awaits runs at one clock value.                                         *)
(***************************************************************************)
EXTENDS Integers, Sequences, FiniteSets, TLC

(* ------------------------------ bounds -------------------------------- *)

\* longest update log the model lets a session accumulate
MaxLog == 2

\* value of Date.now() in the initial state
Epoch == 1000000

(* ------------------------- program constants -------------------------- *)

\* route.ts:231  const maxInactive = 5 * 60 * 1000
MaxInactive == 300000

\* route.ts:126  Date.now() + 24 * 60 * 60 * 1000
SessionTTL == 86400000

(* ------------------------------ domains ------------------------------- *)

\* request slots: the requests that can be in flight together
Procs == {1, 2}

\* the slot used when requests are handled one at a time
SerialProcs == {1}

\* identifiers that requests can name, and those generateId mints
SessionIds == {"s1", "s2"}
MintIds == {"s1"}

\* JavaScript undefined (a request field that is absent) and null
Undef == "undefined"
Null == "null"

\* userId of a request: a participant identifier, or absent
UserIds == {"u1"}
UserIdInputs == UserIds \cup {Undef}

\* userId of an update request
UpdaterIds == {"u1"}

\* report payloads carried by the data of a create request, by the
\* initialData of a join request and by the data of an update request,
\* or absent
CreateInputs == {Undef, "d1"}
InitialInputs == {Undef, "d2"}
DataInputs == {"d1"}

\* type of an update request
TypeInputs == {"full", "field", Undef}

\* the clock values the model visits: the distances between them cover
\* the inactivity window minus one, exactly, plus one, and the session
\* lifetime
ClockOffsets == {0, MaxInactive, MaxInactive + 1}
Times == {Epoch + d : d \in ClockOffsets}

\* timestamp of an update request; 0 stands for absent as well
\* (timestamp || Date.now() treats both alike): absent, and long past
StampInputs == {0, 1}

\* lastUpdate of a poll request; 0 stands for absent as well
\* (lastUpdate || 0 treats both alike)
CursorInputs == {0, Epoch - 1, Epoch}

\* field and value of a field-scoped update request
FieldInputs == {"inspection.tag"}
ValueInputs == {"T-1"}

(* ------------------------- JavaScript helpers ------------------------- *)

\* truthiness of a string-valued (or absent, or null) request field
Truthy(v) == v \notin {Undef, Null, ""}

\* a || b for such a field
OrElse(a, b) == IF Truthy(a) THEN a ELSE b

\* a || b for a numeric field, where 0 also stands for absent
NumOrElse(a, b) == IF a # 0 THEN a ELSE b

\* property read: an absent property reads as undefined
Prop(o, f) == IF f \in DOMAIN o THEN o[f] ELSE Undef

\* property key under which users[userId] is stored
Key(userId) == userId

\* Object.keys(users).length
UserCount(users) == Cardinality(DOMAIN users)

\* JSON.stringify of an object: properties whose value is undefined are
\* dropped from the text
\* (optional: the properties that can hold undefined)
DropUndef(o, optional) ==
    LET keep == {f \in DOMAIN o : f \in optional => o[f] # Undef}
    IN  [f \in keep |-> o[f]]

\* JSON.stringify of users[k]: id is dropped when the userId was absent
StringifyUser(u) ==
    IF u.id = Undef
    THEN [joinedAt |-> u.joinedAt, lastSeen |-> u.lastSeen]
    ELSE u

\* JSON.stringify of an update event (the two usual shapes spelled out)
StringifyEvent(e) ==
    IF e.data = Undef /\ Undef \notin {e.userId, e.type, e.field, e.value}
    THEN [userId |-> e.userId, type |-> e.type, field |-> e.field,
          value |-> e.value, timestamp |-> e.timestamp]
    ELSE IF e.field = Undef /\ e.value = Undef
            /\ Undef \notin {e.userId, e.type, e.data}
    THEN [userId |-> e.userId, type |-> e.type, data |-> e.data,
          timestamp |-> e.timestamp]
    ELSE DropUndef(e, {"userId", "type", "data", "field", "value"})

\* JSON.stringify(sessionData)
Stringify(sd) ==
    LET users == [k \in DOMAIN sd.users |-> StringifyUser(sd.users[k])]
        updates == [i \in DOMAIN sd.updates |-> StringifyEvent(sd.updates[i])]
    IN  IF sd.data = Undef
        THEN [users |-> users, updates |-> updates,
              lastUpdated |-> sd.lastUpdated]
        ELSE [data |-> sd.data, users |-> users, updates |-> updates,
              lastUpdated |-> sd.lastUpdated]

\* JSON.parse of the texts above: a dropped property reads as undefined
ParseUser(u) ==
    [id |-> Prop(u, "id"), joinedAt |-> u.joinedAt, lastSeen |-> u.lastSeen]

ParseEvent(e) ==
    [userId |-> Prop(e, "userId"), type |-> Prop(e, "type"),
     data |-> Prop(e, "data"), field |-> Prop(e, "field"),
     value |-> Prop(e, "value"), timestamp |-> e.timestamp]

\* JSON.parse(session.data || '{}')
Parse(text) ==
    [data |-> Prop(text, "data"),
     users |-> [k \in DOMAIN text.users |-> ParseUser(text.users[k])],
     updates |-> [i \in DOMAIN text.updates |-> ParseEvent(text.updates[i])],
     lastUpdated |-> text.lastUpdated]

\* users[key] = entry
SetUser(users, key, entry) ==
    [k \in DOMAIN users \cup {key} |-> IF k = key THEN entry ELSE users[k]]

\* delete users[key]
DelUser(users, key) == [k \in DOMAIN users \ {key} |-> users[k]]

\* variant: an entry exactly one window old is kept
RecentInclusive(updates, now, window) ==
    SelectSeq(updates, LAMBDA u : now - u.timestamp <= window)

\* updates.filter(u => now - u.timestamp < window)
Recent(updates, now, window) ==
    SelectSeq(updates, LAMBDA u : now - u.timestamp < window)

\* variant: an entry stamped exactly at the cursor is returned again
NewerOrEqual(updates, lastUpdate) ==
    SelectSeq(updates, LAMBDA u : u.timestamp >= NumOrElse(lastUpdate, 0))

\* updates.filter(u => u.timestamp > (lastUpdate || 0))
NewerThan(updates, lastUpdate) ==
    SelectSeq(updates, LAMBDA u : u.timestamp > NumOrElse(lastUpdate, 0))

(* ---------------- the handlers' work on sessionData ------------------- *)

\* variant: initialData seeds the session only while it holds no data
JoinApplySeedEmpty(sd, userId, initialData, now) ==
    LET joined == SetUser(sd.users, Key(userId),
                          [id |-> userId, joinedAt |-> now, lastSeen |-> now])
    IN  IF Truthy(initialData) /\ ~Truthy(sd.data)
        THEN [sd EXCEPT !.users = joined, !.data = initialData,
                        !.lastUpdated = now]
        ELSE [sd EXCEPT !.users = joined]

\* case 'join', lines 155-167
JoinApply(sd, userId, initialData, now) ==
    LET joined == SetUser(sd.users, Key(userId),
                          [id |-> userId, joinedAt |-> now, lastSeen |-> now])
    IN  IF Truthy(initialData)
        THEN [sd EXCEPT !.users = joined, !.data = initialData,
                        !.lastUpdated = now]
        ELSE [sd EXCEPT !.users = joined]

\* case 'leave', line 193 and 195: the handler removes the caller
LeaveApplies(sd, userId) == Truthy(userId) /\ Key(userId) \in DOMAIN sd.users

\* variant: the whole roster is cleared
LeaveApplyAll(sd, userId) == [sd EXCEPT !.users = <<>>]

\* case 'leave', line 196
LeaveApply(sd, userId) == [sd EXCEPT !.users = DelUser(sd.users, Key(userId))]

\* variant: the caller is refreshed only if the pruning would keep it
RefreshIfActive(users, userId, now) ==
    IF /\ Truthy(userId) /\ Key(userId) \in DOMAIN users
       /\ ~(now - users[Key(userId)].lastSeen > MaxInactive)
    THEN [users EXCEPT ![Key(userId)].lastSeen = now]
    ELSE users

\* case 'poll', lines 224-227
Refresh(users, userId, now) ==
    IF Truthy(userId) /\ Key(userId) \in DOMAIN users
    THEN [users EXCEPT ![Key(userId)].lastSeen = now]
    ELSE users

\* case 'poll', lines 229-238
Active(users, now) ==
    LET keep == {k \in DOMAIN users : ~(now - users[k].lastSeen > MaxInactive)}
    IN  [k \in keep |-> users[k]]

\* variant: the roster is refreshed but inactive users are not removed
PollApplyNoPrune(sd, userId, now) ==
    [sd EXCEPT !.users = Refresh(sd.users, userId, now),
               !.updates = Recent(sd.updates, now, MaxInactive)]

\* case 'poll', lines 224-243
PollApply(sd, userId, now) ==
    [sd EXCEPT !.users = Active(Refresh(sd.users, userId, now), now),
               !.updates = Recent(sd.updates, now, MaxInactive)]

\* case 'update', lines 279-292
NewEvent(userId, type, data, field, value, timestamp, now) ==
    [userId |-> userId,
     type |-> OrElse(type, "full"),
     data |-> IF type = "field" THEN Undef ELSE data,
     field |-> IF type = "field" THEN field ELSE Undef,
     value |-> IF type = "field" THEN value ELSE Undef,
     timestamp |-> NumOrElse(timestamp, now)]

\* variant: a field-scoped update is applied to the canonical data too
UpdateApplyField(sd, userId, type, data, field, value, timestamp, now) ==
    LET update == NewEvent(userId, type, data, field, value, timestamp, now)
    IN  [sd EXCEPT !.data = IF type = "field" THEN value ELSE data,
                   !.updates = Recent(Append(sd.updates, update), now,
                                      5 * 60 * 1000),
                   !.lastUpdated = now]

\* case 'update', lines 279-300
UpdateApply(sd, userId, type, data, field, value, timestamp, now) ==
    LET update == NewEvent(userId, type, data, field, value, timestamp, now)
    IN  [sd EXCEPT !.data = IF type = "field" THEN sd.data ELSE data,
                   !.updates = Recent(Append(sd.updates, update), now,
                                      5 * 60 * 1000),
                   !.lastUpdated = now]

(* ----------------- report aggregate of the client stores --------------- *)

\* keys of InspectionData, as initialInspection lists them
InspectionTextFields ==
    {"tag", "modelo", "sn", "entrega", "cliente", "descricao", "machineDown",
     "data", "dataFinal", "osExecucao", "inspetor", "horimetro"}
InspectionPhotoFields == {"machinePhoto", "horimetroPhoto", "serialPhoto"}
InspectionFields == InspectionTextFields \cup InspectionPhotoFields

initialInspection ==
    [k \in InspectionFields |->
       IF k \in InspectionPhotoFields THEN Null ELSE ""]

\* the entries of createInitialPhotos and addPhoto
BlankPhoto(id) ==
    [id |-> id, description |-> "", pn |-> "", serialNumber |-> "",
     partName |-> "", quantity |-> "", criticality |-> "",
     imageData |-> Null, editedImageData |-> Null,
     embeddedPhotos |-> <<>>, hasAdditionalParts |-> FALSE]

\* `photo-init-${i}`
PhotoInitIds == <<"photo-init-0", "photo-init-1", "photo-init-2", "photo-init-3">>

createInitialPhotos(count) == [i \in 1..count |-> BlankPhoto(PhotoInitIds[i])]

\* serverValue !== null && serverValue !== undefined && serverValue !== ''
NonEmpty(v) == v # Null /\ v # Undef /\ v # ""

\* text.trim(), for the strings the model uses
Trim(text) == IF text = " " THEN "" ELSE text

\* variant: a paired entry takes the incoming fields as they are
MergePhotoIncoming(local, server) == server

\* the entry pushed at lines 23-35 for an index both sequences have
MergePhoto(local, server) ==
    [id |-> OrElse(server.id, local.id),
     description |-> OrElse(OrElse(server.description, local.description), ""),
     pn |-> OrElse(OrElse(server.pn, local.pn), ""),
     serialNumber |-> OrElse(OrElse(server.serialNumber, local.serialNumber), ""),
     partName |-> OrElse(OrElse(server.partName, local.partName), ""),
     quantity |-> OrElse(OrElse(server.quantity, local.quantity), ""),
     criticality |-> OrElse(OrElse(server.criticality, local.criticality), ""),
     imageData |-> OrElse(server.imageData, local.imageData),
     editedImageData |-> OrElse(server.editedImageData, local.editedImageData),
     embeddedPhotos |-> IF Len(server.embeddedPhotos) # 0
                        THEN server.embeddedPhotos
                        ELSE local.embeddedPhotos,
     hasAdditionalParts |-> server.hasAdditionalParts \/ local.hasAdditionalParts]

\* Math.max
Max(a, b) == IF a >= b THEN a ELSE b

\* mergePhotos(localPhotos, serverPhotos), on arrays
mergePhotos(localPhotos, serverPhotos) ==
    IF Len(serverPhotos) = 0 THEN localPhotos
    ELSE IF Len(localPhotos) = 0 THEN serverPhotos
    ELSE [i \in 1..Max(Len(localPhotos), Len(serverPhotos)) |->
            IF i > Len(localPhotos) THEN serverPhotos[i]
            ELSE IF i > Len(serverPhotos) THEN localPhotos[i]
            ELSE MergePhoto(localPhotos[i], serverPhotos[i])]

\* a property of the payload is present (and, being an object, an array or
\* a string, is truthy unless it is the empty string)
Has(data, f) == f \in DOMAIN data

(* --------------- useReportStore: the flat-photo store ------------------ *)

\* part_000:126  createInitialPhotos(4)
InitialPhotoCount == 4

\* the state the store is created with (photoCount: 4 counts the photos of
\* createInitialPhotos(4); translation, which is no part of the report, is
\* left out)
Report_initial ==
    [inspection |-> initialInspection,
     photos |-> createInitialPhotos(InitialPhotoCount),
     photoCount |-> InitialPhotoCount,
     additionalParts |-> <<>>,
     conclusion |-> "",
     lastLocalEdit |-> 0]

\* getAllData()
Report_getAllData(state) ==
    [inspection |-> state.inspection, photos |-> state.photos,
     conclusion |-> state.conclusion]

\* variant: every incoming inspection value is taken, empty ones included
Report_mergeInspectionAll(inspection, data) ==
    IF Has(data, "inspection")
    THEN [k \in DOMAIN inspection |->
            IF k \in DOMAIN data.inspection
            THEN data.inspection[k] ELSE inspection[k]]
    ELSE inspection

\* mergeFromData, lines 231-248: the inspection after the merge
Report_mergeInspection(inspection, data) ==
    IF Has(data, "inspection")
    THEN [k \in DOMAIN inspection |->
            IF k \in DOMAIN data.inspection /\ NonEmpty(data.inspection[k])
            THEN data.inspection[k] ELSE inspection[k]]
    ELSE inspection

\* mergeFromData, lines 250-255
Report_mergePhotos(photos, data) ==
    IF Has(data, "photos") THEN mergePhotos(photos, data.photos) ELSE photos

\* mergeFromData, lines 257-264
Report_mergeConclusion(conclusion, data) ==
    IF Has(data, "conclusion") /\ Truthy(data.conclusion)
       /\ Trim(data.conclusion) # ""
    THEN data.conclusion ELSE conclusion

\* mergeFromData: the value of hasChanges at line 266
Report_hasChanges(state, data) ==
    \/ Report_mergeInspection(state.inspection, data) # state.inspection
    \/ Has(data, "photos")
    \/ Report_mergeConclusion(state.conclusion, data) # state.conclusion

\* mergeFromData(data, serverTimestamp): the state set at lines 270-274
Report_merge(state, data, serverTimestamp) ==
    [state EXCEPT !.inspection = Report_mergeInspection(state.inspection, data),
                  !.photos = Report_mergePhotos(state.photos, data),
                  !.conclusion = Report_mergeConclusion(state.conclusion, data)]

(* ------------ useHomeReportStore: the category-aware store ------------- *)

\* DEFAULT_CATEGORIES of @/types/report: the fixed enumeration of valid
\* categories (their descriptive properties are carried along unread)
DEFAULT_CATEGORIES == <<[id |-> "c1"], [id |-> "c2"]>>

\* `photo-${categoryId}-init-${i}`
CategoryPhotoInitIds ==
    [c1 |-> <<"photo-c1-init-0", "photo-c1-init-1">>,
     c2 |-> <<"photo-c2-init-0", "photo-c2-init-1">>]

\* part_001:11  Array.from({ length: 2 }, ...)
InitialCategoryPhotoCount == 2

createInitialCategoryPhotos(categoryId) ==
    [i \in 1..InitialCategoryPhotoCount |->
       BlankPhoto(CategoryPhotoInitIds[categoryId][i])]

createInitialCategories ==
    [i \in DOMAIN DEFAULT_CATEGORIES |->
       [id |-> DEFAULT_CATEGORIES[i].id,
        photos |-> createInitialCategoryPhotos(DEFAULT_CATEGORIES[i].id),
        additionalParts |-> <<>>]]

\* localCats.find(c => c.id === serverCat.id): the index of the first match,
\* 0 when there is none
FindCategory(localCats, id) ==
    LET matches == {j \in DOMAIN localCats : localCats[j].id = id}
    IN  IF matches = {} THEN 0
        ELSE CHOOSE j \in matches : \A m \in matches : j <= m

\* variant: the categories that only the local side has are kept, after
\* the incoming ones
mergeCategoriesKeepLocal(localCats, serverCats) ==
    IF Len(serverCats) = 0 THEN localCats
    ELSE IF Len(localCats) = 0 THEN serverCats
    ELSE [i \in DOMAIN serverCats |->
            LET serverCat == serverCats[i]
                j == FindCategory(localCats, serverCat.id)
            IN  IF j = 0 THEN serverCat
                ELSE [serverCat EXCEPT
                        !.photos = mergePhotos(localCats[j].photos,
                                               serverCat.photos),
                        !.additionalParts =
                            IF Len(serverCat.additionalParts) # 0
                            THEN serverCat.additionalParts
                            ELSE localCats[j].additionalParts]]
         \o SelectSeq(localCats,
                      LAMBDA c : FindCategory(serverCats, c.id) = 0)

\* mergeCategories(localCats, serverCats), on arrays
mergeCategories(localCats, serverCats) ==
    IF Len(serverCats) = 0 THEN localCats
    ELSE IF Len(localCats) = 0 THEN serverCats
    ELSE [i \in DOMAIN serverCats |->
            LET serverCat == serverCats[i]
                j == FindCategory(localCats, serverCat.id)
            IN  IF j = 0 THEN serverCat
                ELSE [serverCat EXCEPT
                        !.photos = mergePhotos(localCats[j].photos,
                                               serverCat.photos),
                        !.additionalParts =
                            IF Len(serverCat.additionalParts) # 0
                            THEN serverCat.additionalParts
                            ELSE localCats[j].additionalParts]]

\* the state the store is created with
Home_initial ==
    [inspection |-> initialInspection,
     categories |-> createInitialCategories,
     conclusion |-> "",
     lastLocalEdit |-> 0]

\* getAllData()
Home_getAllData(state) ==
    [inspection |-> state.inspection, categories |-> state.categories,
     conclusion |-> state.conclusion]

\* mergeFromData, line 255: serverTimestamp || Date.now()
Home_serverTime(serverTimestamp, now) == NumOrElse(serverTimestamp, now)

\* mergeFromData, lines 254-262: the local edit is newer, the merge is
\* skipped
Home_skips(state, serverTimestamp, now) ==
    LET localEditTime == NumOrElse(state.lastLocalEdit, 0)
        serverTime == Home_serverTime(serverTimestamp, now)
    IN  localEditTime > serverTime /\ localEditTime > 0

\* variant: a newer server replaces a field also by an empty value
Home_mergeInspectionNewer(state, data, serverTime) ==
    IF Has(data, "inspection")
    THEN [k \in DOMAIN state.inspection |->
            IF k \notin DOMAIN data.inspection THEN state.inspection[k]
            ELSE IF Truthy(data.inspection[k]) /\ ~Truthy(state.inspection[k])
            THEN data.inspection[k]
            ELSE IF serverTime > state.lastLocalEdit
            THEN data.inspection[k]
            ELSE state.inspection[k]]
    ELSE state.inspection

\* mergeFromData, lines 264-282: the inspection after the merge
Home_mergeInspection(state, data, serverTime) ==
    IF Has(data, "inspection")
    THEN [k \in DOMAIN state.inspection |->
            IF k \notin DOMAIN data.inspection THEN state.inspection[k]
            ELSE LET serverValue == data.inspection[k]
                     localValue == state.inspection[k]
                     localEditTime == NumOrElse(state.lastLocalEdit, 0)
                 IN  IF Truthy(serverValue)
                        /\ (~Truthy(localValue) \/ localValue = "")
                     THEN serverValue
                     ELSE IF Truthy(serverValue) /\ serverTime > localEditTime
                     THEN serverValue
                     ELSE localValue]
    ELSE state.inspection

\* mergeFromData, lines 284-287
Home_mergeCategories(state, data) ==
    IF Has(data, "categories")
    THEN mergeCategories(state.categories, data.categories)
    ELSE state.categories

\* mergeFromData, lines 289-292
Home_mergeConclusion(state, data, serverTime) ==
    IF /\ Has(data, "conclusion") /\ Truthy(data.conclusion)
       /\ (~Truthy(state.conclusion)
           \/ serverTime > NumOrElse(state.lastLocalEdit, 0))
    THEN data.conclusion ELSE state.conclusion

\* mergeFromData(data, serverTimestamp) at time now
Home_merge(state, data, serverTimestamp, now) ==
    IF Home_skips(state, serverTimestamp, now) THEN state
    ELSE LET serverTime == Home_serverTime(serverTimestamp, now)
         IN  [state EXCEPT
                !.inspection = Home_mergeInspection(state, data, serverTime),
                !.categories = Home_mergeCategories(state, data),
                !.conclusion = Home_mergeConclusion(state, data, serverTime)]

(* ------------------------------- state -------------------------------- *)

VARIABLES
    clock,      \* Date.now()
    db,         \* sharedSession table: sessionId -> row
    pc,         \* position of each request slot's handler
    req,        \* request body being handled by each slot
    snap,       \* sessionData each slot's handler parsed from the row it read
    local,      \* sessionData working copy after the handler's mutations
    resp,       \* last response each slot returned
    report,     \* state of useReportStore
    home,       \* state of useHomeReportStore
    call        \* last operation called on a client store, with its arguments

vars == <<clock, db, pc, req, snap, local, resp, report, home, call>>

\* the client stores, which the protocol handler does not touch
client == <<report, home, call>>

\* the session table and the handlers, which the client stores do not touch
server == <<db, pc, req, snap, local, resp>>

NoCall == [store |-> "none", op |-> "none"]

\* a store whose module the running program has not loaded (the route
\* handler runs on the server, each store in the page that imports it)
NoStore == [none |-> TRUE]

NoReq == [action |-> "none"]
NoData == [none |-> TRUE]
NoResp == [action |-> "none"]

\* the slot returned a success response to a request with this action
Succeeded(p, action) ==
    resp[p].action = action /\ resp[p].status = 200 /\ resp[p].body.success

\* variant: a row whose expiresAt has passed is not found
StoredUnexpired(s) == s \in DOMAIN db /\ clock <= db[s].expiresAt

\* findUnique({where: {sessionId}}) returns a row
Stored(s) == s \in DOMAIN db

\* sessionData of a stored session
Session(s) == Parse(db[s].data)

Idle(p) == pc[p] = "idle"

\* db.sharedSession.update({where: {sessionId}, data: {data: text}})
WriteBack(s, text) == db' = [db EXCEPT ![s].data = text]

\* JSON.parse gave the handler on slot p the sessionData sd
Parsed(p, sd) == snap' = [snap EXCEPT ![p] = sd]

\* slot p receives the request body r
Receive(p, r) == req' = [req EXCEPT ![p] = r]

\* NextResponse.json(body, {status}) is returned on slot p, to a request
\* with the given action and sessionId
Respond(p, action, s, r) ==
    resp' = [resp EXCEPT ![p] = [action |-> action, sessionId |-> s,
                                 status |-> r.status, body |-> r.body]]

\* variant: an absent session is reported as an internal failure
NotFoundAsFailure ==
    [status |-> 500,
     body |-> [success |-> FALSE, error |-> "Internal server error"]]

\* lines 146-149, 216-219, 271-274, 322-325
NotFound ==
    [status |-> 404,
     body |-> [success |-> FALSE, error |-> "Session not found"]]

\* lines 356-362
InternalError ==
    [status |-> 500,
     body |-> [success |-> FALSE, error |-> "Internal server error"]]

\* a success response with the given body
Ok(body) ==
    [status |-> 200,
     body |-> [f \in DOMAIN body \cup {"success"} |->
                 IF f = "success" THEN TRUE ELSE body[f]]]

\* case 'join', lines 177-184
JoinResponse(s, sessionData) ==
    Ok([sessionId |-> s, data |-> sessionData.data,
        userCount |-> UserCount(sessionData.users)])

\* case 'poll', lines 246 and 254-261
PollResponse(sessionData, lastUpdate, now) ==
    Ok([updates |-> NewerThan(sessionData.updates, lastUpdate),
        userCount |-> UserCount(sessionData.users),
        timestamp |-> now])

\* case 'get', lines 328-336
GetResponse(s, sessionData) ==
    Ok([data |-> sessionData.data,
        userCount |-> UserCount(sessionData.users),
        sessionId |-> s])

Init ==
    /\ clock = Epoch
    /\ db = <<>>
    /\ pc = [p \in Procs |-> "idle"]
    /\ req = [p \in Procs |-> NoReq]
    /\ snap = [p \in Procs |-> NoData]
    /\ local = [p \in Procs |-> NoData]
    /\ resp = [p \in Procs |-> NoResp]
    /\ report = NoStore
    /\ home = NoStore
    /\ call = NoCall

\* time passes
Tick ==
    /\ \E t \in Times : t > clock /\ clock' = t
    /\ UNCHANGED <<db, pc, req, snap, local, resp, client>>

(* ------------- handlers, each request handled in one step ------------- *)

\* variant: the data of the request is stored without the || null default
NewRowNoDefault(data, now) ==
    [data |-> Stringify([data |-> data,
                         users |-> <<>>,
                         updates |-> <<>>,
                         lastUpdated |-> now]),
     createdAt |-> now,
     expiresAt |-> now + SessionTTL]

\* the row written by db.sharedSession.create (its creatorId, creatorName,
\* reportType and permission are never read by the handlers)
NewRow(data, now) ==
    [data |-> Stringify([data |-> OrElse(data, Null),
                         users |-> <<>>,
                         updates |-> <<>>,
                         lastUpdated |-> now]),
     createdAt |-> now,
     expiresAt |-> now + SessionTTL]

\* `${baseUrl}/report/${newSessionId}`
ShareLink(s) == <<"/report/", s>>

\* case 'create': sessionId is unique in the table, so a minted id that is
\* already stored makes db.sharedSession.create throw
Create(p, s, data) ==
    /\ Idle(p)
    /\ Parsed(p, NoData)
    /\ IF Stored(s)
       THEN /\ db' = db
            /\ Respond(p, "create", s, InternalError)
       ELSE /\ db' = [k \in DOMAIN db \cup {s} |->
                        IF k = s THEN NewRow(data, clock) ELSE db[k]]
            /\ Respond(p, "create", s,
                    Ok([sessionId |-> s, shareLink |-> ShareLink(s)]))
    /\ UNCHANGED <<clock, pc, req, local, client>>

\* case 'join'
Join(p, s, userId, initialData) ==
    /\ Idle(p)
    /\ IF ~Stored(s)
       THEN /\ db' = db
            /\ Parsed(p, NoData)
            /\ Respond(p, "join", s, NotFound)
       ELSE LET parsed == Session(s)
                sessionData == JoinApply(parsed, userId, initialData, clock)
            IN  /\ Parsed(p, parsed)
                /\ WriteBack(s, Stringify(sessionData))
                /\ Respond(p, "join", s, JoinResponse(s, sessionData))
    /\ UNCHANGED <<clock, pc, req, local, client>>

\* case 'leave'
Leave(p, s, userId) ==
    /\ Idle(p)
    /\ IF Stored(s) /\ Truthy(userId)
       THEN LET parsed == Session(s)
            IN  /\ Parsed(p, parsed)
                /\ IF LeaveApplies(parsed, userId)
                   THEN WriteBack(s, Stringify(LeaveApply(parsed, userId)))
                   ELSE db' = db
       ELSE /\ Parsed(p, NoData)
            /\ db' = db
    /\ Respond(p, "leave", s, Ok(<<>>))
    /\ UNCHANGED <<clock, pc, req, local, client>>

\* case 'poll'
Poll(p, s, userId, lastUpdate) ==
    /\ Idle(p)
    /\ IF ~Stored(s)
       THEN /\ db' = db
            /\ Parsed(p, NoData)
            /\ Respond(p, "poll", s, NotFound)
       ELSE LET parsed == Session(s)
                sessionData == PollApply(parsed, userId, clock)
            IN  /\ Parsed(p, parsed)
                /\ WriteBack(s, Stringify(sessionData))
                /\ Respond(p, "poll", s,
                           PollResponse(sessionData, lastUpdate, clock))
    /\ UNCHANGED <<clock, pc, req, local, client>>

\* case 'update'
Update(p, s, userId, type, data, field, value, timestamp) ==
    /\ Idle(p)
    /\ IF ~Stored(s)
       THEN /\ db' = db
            /\ Parsed(p, NoData)
            /\ Respond(p, "update", s, NotFound)
       ELSE LET parsed == Session(s)
            IN  /\ Len(parsed.updates) < MaxLog
                /\ Parsed(p, parsed)
                /\ WriteBack(s, Stringify(UpdateApply(parsed, userId, type,
                                   data, field, value, timestamp, clock)))
                /\ Respond(p, "update", s, Ok(<<>>))
    /\ UNCHANGED <<clock, pc, req, local, client>>

\* variant: get refreshes the caller's lastSeen
GetTouch(p, s, userId) ==
    /\ Idle(p)
    /\ IF ~Stored(s)
       THEN /\ Parsed(p, NoData)
            /\ db' = db
            /\ Respond(p, "get", s, NotFound)
       ELSE LET parsed == Session(s)
            IN  /\ Parsed(p, parsed)
                /\ WriteBack(s, Stringify([parsed EXCEPT !.users =
                                  Refresh(parsed.users, userId, clock)]))
                /\ Respond(p, "get", s, GetResponse(s, parsed))
    /\ UNCHANGED <<clock, pc, req, local, client>>

\* case 'get'
Get(p, s, userId) ==
    /\ Idle(p)
    /\ IF ~Stored(s)
       THEN /\ Parsed(p, NoData)
            /\ Respond(p, "get", s, NotFound)
       ELSE LET parsed == Session(s)
            IN  /\ Parsed(p, parsed)
                /\ Respond(p, "get", s, GetResponse(s, parsed))
    /\ db' = db
    /\ UNCHANGED <<clock, pc, req, local, client>>

\* variant: the rejection for an absent row is not swallowed
DeleteStrict(p, s) ==
    /\ Idle(p)
    /\ Parsed(p, NoData)
    /\ db' = [k \in DOMAIN db \ {s} |-> db[k]]
    /\ Respond(p, "delete", s, IF Stored(s) THEN Ok(<<>>) ELSE InternalError)
    /\ UNCHANGED <<clock, pc, req, local, client>>

\* case 'delete': the rejection for an absent row is swallowed
Delete(p, s) ==
    /\ Idle(p)
    /\ Parsed(p, NoData)
    /\ db' = [k \in DOMAIN db \ {s} |-> db[k]]
    /\ Respond(p, "delete", s, Ok(<<>>))
    /\ UNCHANGED <<clock, pc, req, local, client>>

(* ------------- handlers, each request split at its awaits ------------- *)

\* the requests whose handlers read the row, change sessionData and write
\* the row back
JoinRequests ==
    {[action |-> "join", sessionId |-> s, userId |-> u, initialData |-> d] :
        s \in MintIds, u \in UserIdInputs, d \in InitialInputs}

LeaveRequests ==
    {[action |-> "leave", sessionId |-> s, userId |-> u] :
        s \in MintIds, u \in UserIds}

PollRequests ==
    {[action |-> "poll", sessionId |-> s, userId |-> u, lastUpdate |-> 0] :
        s \in MintIds, u \in UserIds}

UpdateRequests ==
    {[action |-> "update", sessionId |-> s, userId |-> u, type |-> t,
      data |-> d, field |-> f, value |-> v, timestamp |-> 0] :
        s \in MintIds, u \in UpdaterIds, t \in {"full", "field"},
        d \in DataInputs, f \in FieldInputs, v \in ValueInputs}

Requests == JoinRequests \cup LeaveRequests \cup PollRequests \cup UpdateRequests

\* the handler's synchronous work on the sessionData it parsed
HandlerApply(r, sd, now) ==
    CASE r.action = "join" -> JoinApply(sd, r.userId, r.initialData, now)
      [] r.action = "leave" -> LeaveApply(sd, r.userId)
      [] r.action = "poll" -> PollApply(sd, r.userId, now)
      [] r.action = "update" -> UpdateApply(sd, r.userId, r.type, r.data,
                                            r.field, r.value, r.timestamp, now)

\* the response the handler builds once its write-back has resolved
HandlerResponse(r, sd, now) ==
    CASE r.action = "join" -> JoinResponse(r.sessionId, sd)
      [] r.action = "leave" -> Ok(<<>>)
      [] r.action = "poll" -> PollResponse(sd, r.lastUpdate, now)
      [] r.action = "update" -> Ok(<<>>)

\* variant: the handler works on the row as stored when it writes
WorkingIsolated(p) == Session(req[p].sessionId)

\* the sessionData a handler works on is the copy it parsed from the row
\* that findUnique returned
Working(p) == snap[p]

\* await db.sharedSession.findUnique, and the return when nothing is found
\* (or, for leave, when there is nothing to remove)
Fetch(p, r) ==
    /\ Idle(p)
    /\ req[p] = NoReq
    /\ Receive(p, r)
    /\ IF ~Stored(r.sessionId)
       THEN /\ Respond(p, r.action, r.sessionId,
                       IF r.action = "leave" THEN Ok(<<>>) ELSE NotFound)
            /\ UNCHANGED <<pc, snap, local>>
       ELSE IF r.action = "leave" /\ ~LeaveApplies(Session(r.sessionId), r.userId)
       THEN /\ Respond(p, r.action, r.sessionId, Ok(<<>>))
            /\ UNCHANGED <<pc, snap, local>>
       ELSE /\ r.action = "update" => Len(Session(r.sessionId).updates) < MaxLog
            /\ pc' = [pc EXCEPT ![p] = "fetched"]
            /\ snap' = [snap EXCEPT ![p] = Session(r.sessionId)]
            /\ UNCHANGED <<local, resp>>
    /\ UNCHANGED <<clock, db, client>>

\* variant: the write-back creates the row when it is gone (an upsert)
CommitUpsert(p) ==
    /\ pc[p] = "fetched"
    /\ LET sessionData == HandlerApply(req[p], Working(p), clock)
           s == req[p].sessionId
       IN  /\ db' = [k \in DOMAIN db \cup {s} |->
                       IF k = s
                       THEN [data |-> Stringify(sessionData),
                             createdAt |-> clock,
                             expiresAt |-> clock + SessionTTL]
                       ELSE db[k]]
           /\ pc' = [pc EXCEPT ![p] = "written"]
           /\ local' = [local EXCEPT ![p] = sessionData]
           /\ UNCHANGED <<snap, resp>>
    /\ UNCHANGED <<clock, req, client>>

\* the handler's work on sessionData and await db.sharedSession.update,
\* which rejects when the row is gone (caught at lines 356-362)
Commit(p) ==
    /\ pc[p] = "fetched"
    /\ LET sessionData == HandlerApply(req[p], Working(p), clock)
       IN  IF Stored(req[p].sessionId)
           THEN /\ WriteBack(req[p].sessionId, Stringify(sessionData))
                /\ pc' = [pc EXCEPT ![p] = "written"]
                /\ local' = [local EXCEPT ![p] = sessionData]
                /\ UNCHANGED <<snap, resp>>
           ELSE /\ Respond(p, req[p].action, req[p].sessionId, InternalError)
                /\ pc' = [pc EXCEPT ![p] = "idle"]
                /\ snap' = [snap EXCEPT ![p] = NoData]
                /\ UNCHANGED <<db, local>>
    /\ UNCHANGED <<clock, req, client>>

\* NextResponse.json after the write-back
Reply(p) ==
    /\ pc[p] = "written"
    /\ Respond(p, req[p].action, req[p].sessionId,
               HandlerResponse(req[p], local[p], clock))
    /\ pc' = [pc EXCEPT ![p] = "idle"]
    /\ snap' = [snap EXCEPT ![p] = NoData]
    /\ local' = [local EXCEPT ![p] = NoData]
    /\ UNCHANGED <<clock, db, req, client>>

(* --------------------------- specifications --------------------------- *)

\* requests are handled one at a time; leave, poll and update name s1,
\* which is no session before its creation and after its deletion
Next ==
    \/ Tick
    \/ \E p \in SerialProcs, s \in MintIds, data \in CreateInputs :
         Create(p, s, data)
    \/ \E p \in SerialProcs, s \in SessionIds, userId \in UserIdInputs,
          initialData \in InitialInputs :
         Join(p, s, userId, initialData)
    \/ \E p \in SerialProcs, s \in MintIds, userId \in UserIdInputs :
         Leave(p, s, userId)
    \/ \E p \in SerialProcs, s \in MintIds, userId \in UserIdInputs,
          lastUpdate \in CursorInputs :
         Poll(p, s, userId, lastUpdate)
    \/ \E p \in SerialProcs, s \in MintIds, userId \in UpdaterIds,
          type \in TypeInputs, data \in DataInputs, field \in FieldInputs,
          value \in ValueInputs, timestamp \in StampInputs :
         Update(p, s, userId, type, data, field, value, timestamp)
    \/ \E p \in SerialProcs, s \in SessionIds, userId \in UserIdInputs :
         Get(p, s, userId)
    \/ \E p \in SerialProcs, s \in SessionIds :
         Delete(p, s)

Spec == Init /\ [][Next]_vars

\* a session has been created, and either nobody or u1 has joined it
InitConc ==
    /\ clock = Epoch
    /\ \E joined \in BOOLEAN :
         db = [s \in MintIds |->
                 IF joined
                 THEN [NewRow(Undef, Epoch) EXCEPT !.data =
                         Stringify(JoinApply(Parse(@), "u1", Undef, Epoch))]
                 ELSE NewRow(Undef, Epoch)]
    /\ pc = [p \in Procs |-> "idle"]
    /\ req = [p \in Procs |-> NoReq]
    /\ snap = [p \in Procs |-> NoData]
    /\ local = [p \in Procs |-> NoData]
    /\ resp = [p \in Procs |-> NoResp]
    /\ report = NoStore
    /\ home = NoStore
    /\ call = NoCall

\* requests are handled concurrently, interleaved at their awaits; every
\* slot carries one request
NextConc ==
    \/ Tick
    \/ \E p \in Procs, r \in Requests : Fetch(p, r)
    \/ \E p \in Procs : Commit(p)
    \/ \E p \in Procs : Reply(p)

SpecConc == InitConc /\ [][NextConc]_vars

(* ------------------- two participants on one session ------------------ *)

\* the participants, and the clock values visited: a participant that polls
\* at every one of the first three is never more than 200000 ms stale, and
\* the last lies exactly one window after the third
RosterUsers == {"u1", "u2"}
RosterOffsets == {0, 200000, 400000, 700000}

TickRoster ==
    /\ \E d \in RosterOffsets : Epoch + d > clock /\ clock' = Epoch + d
    /\ UNCHANGED <<db, pc, req, snap, local, resp, client>>

\* requests are handled one at a time
NextRoster ==
    \/ TickRoster
    \/ \E p \in SerialProcs, s \in MintIds : Create(p, s, Undef)
    \/ \E p \in SerialProcs, s \in MintIds, userId \in RosterUsers :
         Join(p, s, userId, Undef)
    \/ \E p \in SerialProcs, s \in MintIds, userId \in RosterUsers :
         Leave(p, s, userId)
    \/ \E p \in SerialProcs, s \in MintIds, userId \in RosterUsers :
         Poll(p, s, userId, 0)
    \/ \E p \in SerialProcs, s \in MintIds, userId \in RosterUsers :
         Get(p, s, userId)
    \/ \E p \in SerialProcs, s \in MintIds : Delete(p, s)

SpecRoster == Init /\ [][NextRoster]_vars

(* ------------ one session, from creation to past its expiresAt -------- *)

\* the clock values visited: the creation time, the expiresAt of a session
\* created then, and the first instant after it
ExpiryOffsets == {0, SessionTTL, SessionTTL + 1}

TickExpiry ==
    /\ \E d \in ExpiryOffsets : Epoch + d > clock /\ clock' = Epoch + d
    /\ UNCHANGED <<db, pc, req, snap, local, resp, client>>

\* requests are handled one at a time
NextExpiry ==
    \/ TickExpiry
    \/ \E p \in SerialProcs, s \in MintIds, data \in CreateInputs :
         Create(p, s, data)
    \/ \E p \in SerialProcs, s \in MintIds, userId \in UserIdInputs,
          initialData \in InitialInputs :
         Join(p, s, userId, initialData)
    \/ \E p \in SerialProcs, s \in MintIds, userId \in UserIds :
         Leave(p, s, userId)
    \/ \E p \in SerialProcs, s \in MintIds, userId \in UserIds :
         Poll(p, s, userId, 0)
    \/ \E p \in SerialProcs, s \in MintIds, userId \in UpdaterIds,
          data \in DataInputs :
         Update(p, s, userId, "full", data, Undef, Undef, 0)
    \/ \E p \in SerialProcs, s \in MintIds, userId \in UserIds :
         Get(p, s, userId)
    \/ \E p \in SerialProcs, s \in MintIds : Delete(p, s)

SpecExpiry == Init /\ [][NextExpiry]_vars

(* -------------------- operations of the flat-photo store --------------- *)

\* clock values the client stores visit
ClientOffsets == {0, 1}

\* photo entries of the local side and of the incoming side
PhotoA ==
    [BlankPhoto("a") EXCEPT !.description = "A", !.pn = "PA",
                            !.imageData = "imgA",
                            !.embeddedPhotos = <<"e1">>,
                            !.hasAdditionalParts = TRUE]
PhotoB == [BlankPhoto("b") EXCEPT !.description = "B"]
PhotoX ==
    [BlankPhoto("x") EXCEPT !.description = "X", !.serialNumber = "SX",
                            !.editedImageData = "editX"]
PhotoY ==
    [BlankPhoto("y") EXCEPT !.imageData = "imgY",
                            !.embeddedPhotos = <<"e2">>,
                            !.hasAdditionalParts = TRUE]

\* additional-part entries: an identifier and descriptive properties, for
\* which one stands
PartP1 == [id |-> "p1", description |-> "P1"]
PartP2 == [id |-> "p2", description |-> "P2"]

\* arguments of the local edits
InspectionEdits == {[tag |-> "L"], [machinePhoto |-> "imgL"]}
PhotoSets == {<<>>, <<PhotoA, PhotoB>>}
PhotoEdits == {[description |-> "L"]}
ConclusionEdits == {"L"}

\* serverTimestamp of mergeFromData; 0 stands for absent as well
\* (serverTimestamp || Date.now() treats both alike)
ServerStamps == {0, Epoch - 1, Epoch, Epoch + 1}

\* serverTimestamp handed to the flat-photo store
ReportStamps == {0, Epoch - 1, Epoch + 1}

\* payloads handed to mergeFromData of the flat-photo store
ReportPayloads ==
    {<<>>,
     [inspection |-> [tag |-> "S"]],
     [inspection |-> [tag |-> "", machinePhoto |-> "imgS"]],
     [inspection |-> [tag |-> "S", machinePhoto |-> Null],
      conclusion |-> "S"],
     [conclusion |-> " "],
     [conclusion |-> ""],
     [photos |-> <<>>],
     [photos |-> <<PhotoX>>],
     [photos |-> <<PhotoX, PhotoY>>]}

\* { ...object, ...data }
Spread(object, data) ==
    [k \in DOMAIN object \cup DOMAIN data |->
       IF k \in DOMAIN data THEN data[k] ELSE object[k]]

\* the operation and its arguments are recorded
Called(store, op, args) ==
    call' = [store |-> store, op |-> op, args |-> args]

TickClient ==
    /\ \E d \in ClientOffsets : Epoch + d > clock /\ clock' = Epoch + d
    /\ UNCHANGED <<server, client>>

\* updateInspection(data)
Report_updateInspection(data) ==
    /\ report' = [report EXCEPT !.inspection = Spread(@, data),
                                !.lastLocalEdit = clock]
    /\ Called("report", "updateInspection", [data |-> data])
    /\ UNCHANGED <<clock, server, home>>

\* setPhotos(photos)
Report_setPhotos(photos) ==
    /\ report' = [report EXCEPT !.photos = photos, !.lastLocalEdit = clock]
    /\ Called("report", "setPhotos", [photos |-> photos])
    /\ UNCHANGED <<clock, server, home>>

\* updatePhoto(id, data)
Report_updatePhoto(id, data) ==
    /\ report' = [report EXCEPT
                    !.photos = [i \in DOMAIN @ |->
                                  IF @[i].id = id THEN Spread(@[i], data)
                                  ELSE @[i]],
                    !.lastLocalEdit = clock]
    /\ Called("report", "updatePhoto", [id |-> id, data |-> data])
    /\ UNCHANGED <<clock, server, home>>

\* setConclusion(text)
Report_setConclusion(text) ==
    /\ report' = [report EXCEPT !.conclusion = text, !.lastLocalEdit = clock]
    /\ Called("report", "setConclusion", [text |-> text])
    /\ UNCHANGED <<clock, server, home>>

\* clearAll()
Report_clearAll ==
    /\ report' = Report_initial
    /\ Called("report", "clearAll", <<>>)
    /\ UNCHANGED <<clock, server, home>>

\* mergeFromData(data, serverTimestamp)
Report_mergeFromData(data, serverTimestamp) ==
    /\ report' = Report_merge(report, data, serverTimestamp)
    /\ Called("report", "mergeFromData",
              [data |-> data, serverTimestamp |-> serverTimestamp,
               hasChanges |-> Report_hasChanges(report, data)])
    /\ UNCHANGED <<clock, server, home>>

NextReport ==
    \/ TickClient
    \/ \E data \in InspectionEdits : Report_updateInspection(data)
    \/ \E photos \in PhotoSets : Report_setPhotos(photos)
    \/ \E id \in {"a"}, data \in PhotoEdits : Report_updatePhoto(id, data)
    \/ \E text \in ConclusionEdits : Report_setConclusion(text)
    \/ Report_clearAll
    \/ \E data \in ReportPayloads \cup {Report_getAllData(report)},
          serverTimestamp \in ReportStamps :
         Report_mergeFromData(data, serverTimestamp)

\* the page that imports useReportStore
InitReport ==
    /\ clock = Epoch
    /\ db = <<>>
    /\ pc = [p \in Procs |-> "idle"]
    /\ req = [p \in Procs |-> NoReq]
    /\ snap = [p \in Procs |-> NoData]
    /\ local = [p \in Procs |-> NoData]
    /\ resp = [p \in Procs |-> NoResp]
    /\ report = Report_initial
    /\ home = NoStore
    /\ call = NoCall

SpecReport == InitReport /\ [][NextReport]_vars

(* ------------------ operations of the category-aware store ------------- *)

\* categories of the local side and of the incoming side
CategoryA ==
    [id |-> "c1", photos |-> <<PhotoA, PhotoB>>, additionalParts |-> <<PartP1>>]
CategoryX ==
    [id |-> "c1", photos |-> <<PhotoX>>, additionalParts |-> <<>>]
CategoryY ==
    [id |-> "c2", photos |-> <<PhotoY>>, additionalParts |-> <<PartP2>>]

CategorySets == {<<CategoryA>>}

\* payloads handed to mergeFromData of the category-aware store
HomePayloads ==
    {<<>>,
     [inspection |-> [tag |-> "S"]],
     [inspection |-> [tag |-> "", machinePhoto |-> "imgS"]],
     [inspection |-> [tag |-> "S", machinePhoto |-> Null],
      conclusion |-> "S"],
     [conclusion |-> ""],
     [categories |-> <<>>],
     [categories |-> <<CategoryX>>],
     [categories |-> <<CategoryY>>],
     [inspection |-> [tag |-> "S"], categories |-> <<CategoryX, CategoryY>>,
      conclusion |-> "S"]}

\* updateInspection(data)
Home_updateInspection(data) ==
    /\ home' = [home EXCEPT !.inspection = Spread(@, data),
                            !.lastLocalEdit = clock]
    /\ Called("home", "updateInspection", [data |-> data])
    /\ UNCHANGED <<clock, server, report>>

\* setCategories(categories)
Home_setCategories(categories) ==
    /\ home' = [home EXCEPT !.categories = categories, !.lastLocalEdit = clock]
    /\ Called("home", "setCategories", [categories |-> categories])
    /\ UNCHANGED <<clock, server, report>>

\* updatePhotoInCategory(categoryId, photoId, data)
Home_updatePhotoInCategory(categoryId, photoId, data) ==
    /\ home' = [home EXCEPT
                  !.categories =
                     [i \in DOMAIN @ |->
                        IF @[i].id # categoryId THEN @[i]
                        ELSE [@[i] EXCEPT !.photos =
                                [j \in DOMAIN @ |->
                                   IF @[j].id = photoId
                                   THEN Spread(@[j], data) ELSE @[j]]]],
                  !.lastLocalEdit = clock]
    /\ Called("home", "updatePhotoInCategory",
              [categoryId |-> categoryId, photoId |-> photoId, data |-> data])
    /\ UNCHANGED <<clock, server, report>>

\* setConclusion(text)
Home_setConclusion(text) ==
    /\ home' = [home EXCEPT !.conclusion = text, !.lastLocalEdit = clock]
    /\ Called("home", "setConclusion", [text |-> text])
    /\ UNCHANGED <<clock, server, report>>

\* clearAll()
Home_clearAll ==
    /\ home' = Home_initial
    /\ Called("home", "clearAll", <<>>)
    /\ UNCHANGED <<clock, server, report>>

\* mergeFromData(data, serverTimestamp)
Home_mergeFromData(data, serverTimestamp) ==
    /\ home' = Home_merge(home, data, serverTimestamp, clock)
    /\ Called("home", "mergeFromData",
              [data |-> data, serverTimestamp |-> serverTimestamp])
    /\ UNCHANGED <<clock, server, report>>

NextHome ==
    \/ TickClient
    \/ \E data \in InspectionEdits : Home_updateInspection(data)
    \/ \E categories \in CategorySets : Home_setCategories(categories)
    \/ \E data \in PhotoEdits : Home_updatePhotoInCategory("c1", "a", data)
    \/ \E text \in ConclusionEdits : Home_setConclusion(text)
    \/ Home_clearAll
    \/ \E data \in HomePayloads \cup {Home_getAllData(home)},
          serverTimestamp \in ServerStamps :
         Home_mergeFromData(data, serverTimestamp)

\* the page that imports useHomeReportStore
InitHome ==
    /\ clock = Epoch
    /\ db = <<>>
    /\ pc = [p \in Procs |-> "idle"]
    /\ req = [p \in Procs |-> NoReq]
    /\ snap = [p \in Procs |-> NoData]
    /\ local = [p \in Procs |-> NoData]
    /\ resp = [p \in Procs |-> NoResp]
    /\ report = NoStore
    /\ home = Home_initial
    /\ call = NoCall

SpecHome == InitHome /\ [][NextHome]_vars

(* ------------------------ one client, either store --------------------- *)

\* the page imports one of the two stores
InitClient ==
    /\ clock = Epoch
    /\ db = <<>>
    /\ pc = [p \in Procs |-> "idle"]
    /\ req = [p \in Procs |-> NoReq]
    /\ snap = [p \in Procs |-> NoData]
    /\ local = [p \in Procs |-> NoData]
    /\ resp = [p \in Procs |-> NoResp]
    /\ \E store \in {"report", "home"} :
         /\ report = IF store = "report" THEN Report_initial ELSE NoStore
         /\ home = IF store = "home" THEN Home_initial ELSE NoStore
         /\ call = [store |-> store, op |-> "none"]

NextClient ==
    \/ call.store = "report" /\ NextReport
    \/ call.store = "home" /\ NextHome

SpecClient == InitClient /\ [][NextClient]_vars

(* ---------------- the photo-sequence merge on its inputs ---------------- *)

\* the photo entries a sequence is drawn from
PhotoPool == {PhotoA, PhotoB, PhotoX, PhotoY}

\* photo sequences whose identifiers are pairwise distinct, as the store
\* holds them and as a collaborator's store sends them
PhotoSeqs ==
    {<<>>} \cup {<<p>> : p \in PhotoPool}
           \cup {s \in PhotoPool \X PhotoPool : s[1] # s[2]}

\* the flat-photo store holds a photo sequence; nothing was edited locally
InitPhotos ==
    /\ clock = Epoch
    /\ db = <<>>
    /\ pc = [p \in Procs |-> "idle"]
    /\ req = [p \in Procs |-> NoReq]
    /\ snap = [p \in Procs |-> NoData]
    /\ local = [p \in Procs |-> NoData]
    /\ resp = [p \in Procs |-> NoResp]
    /\ \E photos \in PhotoSeqs :
         report = [Report_initial EXCEPT !.photos = photos]
    /\ home = NoStore
    /\ call = NoCall

\* mergeFromData is handed a photo sequence
NextPhotos ==
    \E photos \in PhotoSeqs, serverTimestamp \in ReportStamps :
       Report_mergeFromData([photos |-> photos], serverTimestamp)

SpecPhotos == InitPhotos /\ [][NextPhotos]_vars

(* --------------- the category-sequence merge on its inputs -------------- *)

\* a category that holds no photo yet
CategoryZ == [id |-> "c3", photos |-> <<>>, additionalParts |-> <<>>]

\* the category entries a sequence is drawn from
CategoryPool == {CategoryA, CategoryX, CategoryY, CategoryZ}

\* category sequences whose identifiers are pairwise distinct
CategorySeqs ==
    {<<>>} \cup {<<c>> : c \in CategoryPool}
           \cup {s \in CategoryPool \X CategoryPool : s[1].id # s[2].id}

\* the category-aware store holds a category sequence; nothing was edited
\* locally
InitCategories ==
    /\ clock = Epoch
    /\ db = <<>>
    /\ pc = [p \in Procs |-> "idle"]
    /\ req = [p \in Procs |-> NoReq]
    /\ snap = [p \in Procs |-> NoData]
    /\ local = [p \in Procs |-> NoData]
    /\ resp = [p \in Procs |-> NoResp]
    /\ report = NoStore
    /\ \E categories \in CategorySeqs :
         home = [Home_initial EXCEPT !.categories = categories]
    /\ call = NoCall

\* mergeFromData is handed a category sequence
NextCategories ==
    \E categories \in CategorySeqs, serverTimestamp \in ServerStamps :
       Home_mergeFromData([categories |-> categories], serverTimestamp)

SpecCategories == InitCategories /\ [][NextCategories]_vars

(* ------------- the category-aware store's persisted snapshot ------------ *)

\* part_001:7  const STORAGE_VERSION = 3
STORAGE_VERSION == 3

\* DEFAULT_CATEGORIES.map(c => c.id)
VALID_CATEGORY_IDS ==
    {DEFAULT_CATEGORIES[i].id : i \in DOMAIN DEFAULT_CATEGORIES}

\* migrate(persistedState, version) of the persist options
migrate(persistedState, version) ==
    IF version < STORAGE_VERSION /\ Has(persistedState, "categories")
    THEN [persistedState EXCEPT !.categories =
            SelectSeq(@, LAMBDA cat : cat.id \in VALID_CATEGORY_IDS)]
    ELSE persistedState

\* versions a stored snapshot carries: older, current, newer
StoredVersions == {STORAGE_VERSION - 1, STORAGE_VERSION, STORAGE_VERSION + 1}

\* snapshots found in the storage: the state properties of an earlier run
PersistedStates ==
    {[inspection |-> Spread(initialInspection, edit),
      categories |-> categories,
      conclusion |-> "",
      lastLocalEdit |-> lastLocalEdit] :
        edit \in {<<>>, [tag |-> "L"]}, categories \in CategorySeqs,
        lastLocalEdit \in {0, Epoch - 1}}

\* the store is created and the persist middleware loads the stored
\* snapshot: migrate is applied when the stored version is not the
\* version of the options, and the outcome is spread over the initial state
Home_rehydrate(persistedState, version) ==
    /\ call.op = "none"
    /\ home' = Spread(home, IF version # STORAGE_VERSION
                            THEN migrate(persistedState, version)
                            ELSE persistedState)
    /\ Called("home", "rehydrate",
              [persistedState |-> persistedState, version |-> version])
    /\ UNCHANGED <<clock, server, report>>

NextLoad ==
    \E persistedState \in PersistedStates, version \in StoredVersions :
       Home_rehydrate(persistedState, version)

SpecLoad == InitHome /\ [][NextLoad]_vars

(* ----------------- every operation of the flat-photo store ------------- *)

\* longest photo sequence the model lets addPhoto extend, and highest
\* photoCount it lets addPhoto raise
MaxPhotos == 1

\* longest additional-part list the model lets an add operation extend
MaxParts == 0

\* how far below zero the model lets removePhoto take photoCount
MaxDebt == 1

\* arguments of the operations
PhotoIdInputs == {"a", "none"}
PhotoCountInputs == {1}
PartIdInputs == {"p1", "none"}
PartEdits == {[description |-> "L"]}
LoadPayloads ==
    {<<>>,
     [inspection |-> [tag |-> "L"], photos |-> <<PhotoA>>, conclusion |-> "L"]}
EditStamps == {0, Epoch - 1}

\* setLastLocalEdit(timestamp)
Report_setLastLocalEdit(timestamp) ==
    /\ report' = [report EXCEPT !.lastLocalEdit = timestamp]
    /\ Called("report", "setLastLocalEdit", [timestamp |-> timestamp])
    /\ UNCHANGED <<clock, server, home>>

\* addPhoto(): the new entry's id is `photo-${Date.now()}`
Report_addPhoto ==
    /\ Len(report.photos) <= MaxPhotos
    /\ report.photoCount <= MaxPhotos
    /\ report' = [report EXCEPT
                    !.photos = Append(@, BlankPhoto(<<"photo-", clock>>)),
                    !.photoCount = @ + 1,
                    !.lastLocalEdit = clock]
    /\ Called("report", "addPhoto", <<>>)
    /\ UNCHANGED <<clock, server, home>>

\* removePhoto(id)
Report_removePhoto(id) ==
    /\ report.photoCount > -MaxDebt
    /\ report' = [report EXCEPT
                    !.photos = SelectSeq(@, LAMBDA p : p.id # id),
                    !.photoCount = @ - 1,
                    !.lastLocalEdit = clock]
    /\ Called("report", "removePhoto", [id |-> id])
    /\ UNCHANGED <<clock, server, home>>

\* setPhotoCount(count)
Report_setPhotoCount(count) ==
    /\ report' = [report EXCEPT
                    !.photos = [i \in 1..count |->
                                  IF i <= Len(report.photos)
                                  THEN report.photos[i]
                                  ELSE createInitialPhotos(count)[i]],
                    !.photoCount = count,
                    !.lastLocalEdit = clock]
    /\ Called("report", "setPhotoCount", [count |-> count])
    /\ UNCHANGED <<clock, server, home>>

\* addAdditionalPart(part)
Report_addAdditionalPart(part) ==
    /\ Len(report.additionalParts) <= MaxParts
    /\ report' = [report EXCEPT !.additionalParts = Append(@, part),
                                !.lastLocalEdit = clock]
    /\ Called("report", "addAdditionalPart", [part |-> part])
    /\ UNCHANGED <<clock, server, home>>

\* removeAdditionalPart(id)
Report_removeAdditionalPart(id) ==
    /\ report' = [report EXCEPT
                    !.additionalParts = SelectSeq(@, LAMBDA p : p.id # id),
                    !.lastLocalEdit = clock]
    /\ Called("report", "removeAdditionalPart", [id |-> id])
    /\ UNCHANGED <<clock, server, home>>

\* updateAdditionalPart(id, data)
Report_updateAdditionalPart(id, data) ==
    /\ report' = [report EXCEPT
                    !.additionalParts =
                       [i \in DOMAIN @ |->
                          IF @[i].id = id THEN Spread(@[i], data) ELSE @[i]],
                    !.lastLocalEdit = clock]
    /\ Called("report", "updateAdditionalPart", [id |-> id, data |-> data])
    /\ UNCHANGED <<clock, server, home>>

\* setAdditionalParts(parts)
Report_setAdditionalParts(parts) ==
    /\ report' = [report EXCEPT !.additionalParts = parts,
                                !.lastLocalEdit = clock]
    /\ Called("report", "setAdditionalParts", [parts |-> parts])
    /\ UNCHANGED <<clock, server, home>>

\* variant: accepting a loaded payload counts as a local edit
Report_loadFromDataStamped(data) ==
    /\ report' = [report EXCEPT
                    !.inspection =
                       IF Has(data, "inspection")
                       THEN Spread(initialInspection, data.inspection)
                       ELSE initialInspection,
                    !.photos =
                       IF Has(data, "photos") THEN data.photos
                       ELSE createInitialPhotos(InitialPhotoCount),
                    !.conclusion =
                       IF Has(data, "conclusion") /\ Truthy(data.conclusion)
                       THEN data.conclusion ELSE "",
                    !.lastLocalEdit = clock]
    /\ Called("report", "loadFromData", [data |-> data])
    /\ UNCHANGED <<clock, server, home>>

\* loadFromData(data)
Report_loadFromData(data) ==
    /\ report' = [report EXCEPT
                    !.inspection =
                       IF Has(data, "inspection")
                       THEN Spread(initialInspection, data.inspection)
                       ELSE initialInspection,
                    !.photos =
                       IF Has(data, "photos") THEN data.photos
                       ELSE createInitialPhotos(InitialPhotoCount),
                    !.conclusion =
                       IF Has(data, "conclusion") /\ Truthy(data.conclusion)
                       THEN data.conclusion ELSE ""]
    /\ Called("report", "loadFromData", [data |-> data])
    /\ UNCHANGED <<clock, server, home>>

NextReportOps ==
    \/ TickClient
    \/ \E timestamp \in EditStamps : Report_setLastLocalEdit(timestamp)
    \/ \E data \in {[tag |-> "L"]} : Report_updateInspection(data)
    \/ \E photos \in {<<PhotoA>>} : Report_setPhotos(photos)
    \/ Report_addPhoto
    \/ \E id \in PhotoIdInputs : Report_removePhoto(id)
    \/ \E id \in {"a"}, data \in PhotoEdits : Report_updatePhoto(id, data)
    \/ \E count \in PhotoCountInputs : Report_setPhotoCount(count)
    \/ \E part \in {PartP1} : Report_addAdditionalPart(part)
    \/ \E id \in PartIdInputs : Report_removeAdditionalPart(id)
    \/ \E id \in {"p1"}, data \in PartEdits :
         Report_updateAdditionalPart(id, data)
    \/ \E parts \in {<<PartP2>>} : Report_setAdditionalParts(parts)
    \/ \E text \in ConclusionEdits : Report_setConclusion(text)
    \/ Report_clearAll
    \/ \E data \in LoadPayloads : Report_loadFromData(data)
    \/ \E data \in LoadPayloads, serverTimestamp \in ReportStamps :
         Report_mergeFromData(data, serverTimestamp)

(* -------------- every operation of the category-aware store ------------ *)

\* setLastLocalEdit(timestamp)
Home_setLastLocalEdit(timestamp) ==
    /\ home' = [home EXCEPT !.lastLocalEdit = timestamp]
    /\ Called("home", "setLastLocalEdit", [timestamp |-> timestamp])
    /\ UNCHANGED <<clock, server, report>>

\* addPhotoToCategory(categoryId): the new entry's id is
\* `photo-${categoryId}-${Date.now()}`
Home_addPhotoToCategory(categoryId) ==
    /\ \A i \in DOMAIN home.categories :
          home.categories[i].id = categoryId =>
             Len(home.categories[i].photos) <= MaxPhotos
    /\ home' = [home EXCEPT
                  !.categories =
                     [i \in DOMAIN @ |->
                        IF @[i].id # categoryId THEN @[i]
                        ELSE [@[i] EXCEPT !.photos =
                                Append(@, BlankPhoto(<<"photo-", categoryId,
                                                       "-", clock>>))]],
                  !.lastLocalEdit = clock]
    /\ Called("home", "addPhotoToCategory", [categoryId |-> categoryId])
    /\ UNCHANGED <<clock, server, report>>

\* removePhotoFromCategory(categoryId, photoId)
Home_removePhotoFromCategory(categoryId, photoId) ==
    /\ home' = [home EXCEPT
                  !.categories =
                     [i \in DOMAIN @ |->
                        IF @[i].id # categoryId THEN @[i]
                        ELSE [@[i] EXCEPT !.photos =
                                SelectSeq(@, LAMBDA p : p.id # photoId)]],
                  !.lastLocalEdit = clock]
    /\ Called("home", "removePhotoFromCategory",
              [categoryId |-> categoryId, photoId |-> photoId])
    /\ UNCHANGED <<clock, server, report>>

\* addAdditionalPartToCategory(categoryId, part)
Home_addAdditionalPartToCategory(categoryId, part) ==
    /\ \A i \in DOMAIN home.categories :
          home.categories[i].id = categoryId =>
             Len(home.categories[i].additionalParts) <= MaxParts
    /\ home' = [home EXCEPT
                  !.categories =
                     [i \in DOMAIN @ |->
                        IF @[i].id # categoryId THEN @[i]
                        ELSE [@[i] EXCEPT !.additionalParts = Append(@, part)]],
                  !.lastLocalEdit = clock]
    /\ Called("home", "addAdditionalPartToCategory",
              [categoryId |-> categoryId, part |-> part])
    /\ UNCHANGED <<clock, server, report>>

\* removeAdditionalPartFromCategory(categoryId, partId)
Home_removeAdditionalPartFromCategory(categoryId, partId) ==
    /\ home' = [home EXCEPT
                  !.categories =
                     [i \in DOMAIN @ |->
                        IF @[i].id # categoryId THEN @[i]
                        ELSE [@[i] EXCEPT !.additionalParts =
                                SelectSeq(@, LAMBDA p : p.id # partId)]],
                  !.lastLocalEdit = clock]
    /\ Called("home", "removeAdditionalPartFromCategory",
              [categoryId |-> categoryId, partId |-> partId])
    /\ UNCHANGED <<clock, server, report>>

\* loadFromData(data)
Home_loadFromData(data) ==
    /\ home' = [home EXCEPT
                  !.inspection =
                     IF Has(data, "inspection")
                     THEN Spread(initialInspection, data.inspection)
                     ELSE initialInspection,
                  !.categories =
                     IF Has(data, "categories") THEN data.categories
                     ELSE createInitialCategories,
                  !.conclusion =
                     IF Has(data, "conclusion") /\ Truthy(data.conclusion)
                     THEN data.conclusion ELSE ""]
    /\ Called("home", "loadFromData", [data |-> data])
    /\ UNCHANGED <<clock, server, report>>

\* payloads handed to loadFromData and mergeFromData
HomeLoadPayloads ==
    {<<>>,
     [inspection |-> [tag |-> "L"], categories |-> <<CategoryA>>,
      conclusion |-> "L"]}

NextHomeOps ==
    \/ TickClient
    \/ \E timestamp \in EditStamps : Home_setLastLocalEdit(timestamp)
    \/ \E data \in {[tag |-> "L"]} : Home_updateInspection(data)
    \/ \E categories \in CategorySets : Home_setCategories(categories)
    \/ \E categoryId \in {"c1"} : Home_addPhotoToCategory(categoryId)
    \/ \E categoryId \in {"c1"}, photoId \in PhotoIdInputs :
         Home_removePhotoFromCategory(categoryId, photoId)
    \/ \E data \in PhotoEdits : Home_updatePhotoInCategory("c1", "a", data)
    \/ \E categoryId \in {"c1"}, part \in {PartP2} :
         Home_addAdditionalPartToCategory(categoryId, part)
    \/ \E categoryId \in {"c1"}, partId \in PartIdInputs :
         Home_removeAdditionalPartFromCategory(categoryId, partId)
    \/ \E text \in ConclusionEdits : Home_setConclusion(text)
    \/ Home_clearAll
    \/ \E data \in HomeLoadPayloads : Home_loadFromData(data)
    \/ \E data \in HomeLoadPayloads, serverTimestamp \in ReportStamps :
         Home_mergeFromData(data, serverTimestamp)

\* the page imports one of the two stores and calls its operations
NextOps ==
    \/ call.store = "report" /\ NextReportOps
    \/ call.store = "home" /\ NextHomeOps

SpecOps == InitClient /\ [][NextOps]_vars

(* ------------------------------- claims ------------------------------- *)

\* C1: a handler's write-back stores the whole payload it computed from the
\* row it read itself, whatever the row holds when the write lands: there
\* is no isolation between concurrent actions on one session.
C1_WriteBackFromOwnRead ==
    [][\A p \in Procs :
         (pc[p] = "fetched" /\ pc'[p] = "written") =>
            db'[req[p].sessionId].data =
               Stringify(HandlerApply(req[p], snap[p], clock))]_vars

\* an update and a join on the same session both returned success, no time
\* has passed since, and the stored update log lacks the update's event
C1_LostUpdateWitness ==
    \E p \in Procs : \E q \in Procs \ {p} :
       /\ Idle(p) /\ Idle(q)
       /\ req[p].action = "update" /\ Succeeded(p, "update")
       /\ req[q].action = "join" /\ Succeeded(q, "join")
       /\ req[p].sessionId = req[q].sessionId
       /\ clock = Epoch
       /\ Stored(req[p].sessionId)
       /\ Session(req[p].sessionId).updates = <<>>
       /\ Key(req[q].userId) \in DOMAIN Session(req[q].sessionId).users

\* the canonical data and the update log as the row's text holds them
StoredData(row) == Prop(row.data, "data")
StoredLog(row) == row.data.updates
StoredUsers(row) == row.data.users

Range(f) == {f[i] : i \in DOMAIN f}

\* a step in which slot p returns a success response to a request with
\* the given action (time does not pass within a handler's step)
Returns(p, action) ==
    /\ clock' = clock
    /\ resp'[p].action = action
    /\ resp'[p].status = 200

\* C2: on an existing session a full update carrying data D makes D the
\* canonical data (which is what a get then returns); a field update leaves
\* the canonical data as it was, and its event is the last entry of the
\* stored log when its timestamp lies inside the window the log is trimmed
\* to.
C2_FullOverwritesFieldKeeps ==
    [][\A p \in SerialProcs : Returns(p, "update") =>
       \A s \in {resp'[p].sessionId}, u \in UpdaterIds,
          t \in TypeInputs, d \in DataInputs, f \in FieldInputs,
          v \in ValueInputs, ts \in StampInputs :
          \/ LET log == StoredLog(db'[s])
                 at == IF ts = 0 THEN clock ELSE ts
             IN  /\ t = "full" =>
                      /\ StoredData(db'[s]) = d
                      /\ GetResponse(s, Parse(db'[s].data)).body.data = d
                 /\ t = "field" =>
                      /\ StoredData(db'[s]) = StoredData(db[s])
                      /\ clock - at < 300000 =>
                           /\ Len(log) > 0
                           /\ log[Len(log)] =
                                [userId |-> u, type |-> "field", field |-> f,
                                 value |-> v, timestamp |-> at]
          \/ ~Update(p, s, u, t, d, f, v, ts)]_vars

\* the last request was an update that appended a field event, and the
\* canonical data is still the d2 that the session held before
C2_FieldKeepsWitness ==
    \E p \in SerialProcs :
       /\ Succeeded(p, "update")
       /\ Stored(resp[p].sessionId)
       /\ snap[p].data = "d2"
       /\ StoredData(db[resp[p].sessionId]) = "d2"
       /\ Len(StoredLog(db[resp[p].sessionId])) = Len(snap[p].updates) + 1
       /\ StoredLog(db[resp[p].sessionId])[Len(snap[p].updates) + 1].type = "field"

\* C3: a poll with cursor lastUpdate returns exactly the entries of the
\* retained update log whose timestamp is strictly greater than lastUpdate,
\* in log order.
C3_PollReturnsNewer ==
    [][\A p \in SerialProcs : Returns(p, "poll") =>
       LET s == resp'[p].sessionId
           retained == Parse(db'[s].data).updates
       IN  \A c \in CursorInputs :
              \/ resp'[p].body.updates =
                    SelectSeq(retained, LAMBDA e : e.timestamp > c)
              \/ \A u \in UserIdInputs : ~Poll(p, s, u, c)]_vars

\* a poll returned no updates although the retained log holds an entry
\* stamped Epoch: its cursor was Epoch
C3_CursorWitness ==
    \E p \in SerialProcs :
       /\ Succeeded(p, "poll")
       /\ Stored(resp[p].sessionId)
       /\ resp[p].body.updates = <<>>
       /\ \E e \in Range(StoredLog(db[resp[p].sessionId])) : e.timestamp = Epoch

\* C4: after a successful poll at time now the stored roster holds no
\* participant whose lastSeen is more than 5 minutes before now, and the
\* userCount the poll returned is the size of the stored roster.
C4_PollPrunesInactive ==
    \A p \in SerialProcs :
       (Succeeded(p, "poll") /\ Stored(resp[p].sessionId)) =>
          LET users == StoredUsers(db[resp[p].sessionId])
              now == resp[p].body.timestamp
          IN  /\ \A k \in DOMAIN users : now - users[k].lastSeen <= 300000
              /\ resp[p].body.userCount = Cardinality(DOMAIN users)

\* a poll removed a participant that the roster it read still held
C4_PrunedWitness ==
    \E p \in SerialProcs :
       /\ Succeeded(p, "poll")
       /\ Stored(resp[p].sessionId)
       /\ \E k \in DOMAIN snap[p].users :
             k \notin DOMAIN StoredUsers(db[resp[p].sessionId])
       /\ resp[p].body.userCount < Cardinality(DOMAIN snap[p].users)

\* C5: in the payload written by a successful update or poll at time now,
\* every log entry is less than 5 minutes old, so an entry that has reached
\* that age does not survive the first update or poll that runs.
C5_LogWithinWindow ==
    [][\A p \in SerialProcs :
         (Returns(p, "update") \/ Returns(p, "poll")) =>
            \A e \in Range(StoredLog(db'[resp'[p].sessionId])) :
               clock - e.timestamp < 300000]_vars

\* an update or poll dropped an entry that the log it read still held
C5_TrimmedWitness ==
    \E p \in SerialProcs :
       /\ resp[p].action \in {"update", "poll"}
       /\ resp[p].status = 200
       /\ Stored(resp[p].sessionId)
       /\ \E e \in Range(snap[p].updates) :
             e \notin Range(Parse(db[resp[p].sessionId].data).updates)

\* a step in which slot p returns a response to a request with one of the
\* given actions
Answers(p, actions) == clock' = clock /\ resp'[p].action \in actions

\* every session but s is stored as before
OthersUnchanged(s) ==
    /\ DOMAIN db' \ {s} = DOMAIN db \ {s}
    /\ \A k \in DOMAIN db \ {s} : db'[k] = db[k]

\* C6: a join, poll, update or get that names a session which is not stored
\* returns success false, error "Session not found" and status 404, and
\* the table is left as it was (no session created, none changed).
C6_AbsentSessionNotFound ==
    [][\A p \in SerialProcs :
         (/\ Answers(p, {"join", "poll", "update", "get"})
          /\ ~Stored(resp'[p].sessionId)) =>
            /\ resp'[p].status = 404
            /\ resp'[p].body = [success |-> FALSE, error |-> "Session not found"]
            /\ db' = db]_vars

\* a request naming s2 was answered 404 while s1 is stored
C6_NotFoundWitness ==
    \E p \in SerialProcs :
       /\ resp[p].action \in {"join", "poll", "update", "get"}
       /\ resp[p].status = 404
       /\ ~Stored(resp[p].sessionId)
       /\ db # <<>>

\* C7: delete reports success whether or not the session is stored, and
\* afterwards no session with that id is stored (so a repeated delete finds
\* it absent and a join, poll, update or get finds nothing); the other
\* sessions are untouched.
C7_DeleteAlwaysSucceeds ==
    [][\A p \in SerialProcs :
         Answers(p, {"delete"}) =>
            /\ resp'[p].status = 200
            /\ resp'[p].body.success
            /\ resp'[p].sessionId \notin DOMAIN db'
            /\ OthersUnchanged(resp'[p].sessionId)]_vars

\* a delete of s2, an id that is never stored, returned success
C7_DeleteAbsentWitness ==
    \E p \in SerialProcs :
       /\ Succeeded(p, "delete")
       /\ resp[p].sessionId \notin MintIds
       /\ db # <<>>

\* the caller is a participant of the roster
InRoster(userId, users) == userId \in UserIds /\ userId \in DOMAIN users

\* C8: leave always returns success; when the session is stored and the
\* caller is in its roster, the caller's entry is removed and nothing else
\* of the payload changes; otherwise (no such session, or no such
\* participant) nothing is written.
C8_LeaveRemovesOnlyCaller ==
    [][\A p \in SerialProcs :
         Answers(p, {"leave"}) =>
            /\ resp'[p].status = 200
            /\ resp'[p].body.success
            /\ \A s \in {resp'[p].sessionId}, u \in UserIdInputs :
                  Leave(p, s, u) =>
                     IF Stored(s) /\ InRoster(u, StoredUsers(db[s]))
                     THEN /\ Stored(s)'
                          /\ DOMAIN StoredUsers(db'[s]) =
                                DOMAIN StoredUsers(db[s]) \ {u}
                          /\ \A k \in DOMAIN StoredUsers(db'[s]) :
                                StoredUsers(db'[s])[k] = StoredUsers(db[s])[k]
                          /\ StoredData(db'[s]) = StoredData(db[s])
                          /\ StoredLog(db'[s]) = StoredLog(db[s])
                          /\ db'[s].data.lastUpdated = db[s].data.lastUpdated
                          /\ OthersUnchanged(s)
                     ELSE db' = db]_vars

\* a leave removed u1 from a roster that still holds another participant
C8_LeaveWitness ==
    \E p \in SerialProcs :
       /\ Succeeded(p, "leave")
       /\ Stored(resp[p].sessionId)
       /\ snap[p] # NoData
       /\ "u1" \in DOMAIN snap[p].users
       /\ "u1" \notin DOMAIN StoredUsers(db[resp[p].sessionId])
       /\ StoredUsers(db[resp[p].sessionId]) # <<>>

\* C9: get changes nothing in the table, and for a stored session it
\* returns the stored canonical data and the number of roster entries.
C9_GetReadOnly ==
    [][\A p \in SerialProcs :
         Answers(p, {"get"}) =>
            /\ db' = db
            /\ Stored(resp'[p].sessionId) =>
                  /\ resp'[p].status = 200
                  /\ resp'[p].body.success
                  /\ resp'[p].body.data = StoredData(db[resp'[p].sessionId])
                  /\ resp'[p].body.userCount =
                        Cardinality(DOMAIN StoredUsers(db[resp'[p].sessionId]))]_vars

\* a get returned the data and the count of a session with two participants
C9_GetWitness ==
    \E p \in SerialProcs :
       /\ Succeeded(p, "get")
       /\ resp[p].body.data = "d1"
       /\ resp[p].body.userCount = 2
       /\ \E k \in DOMAIN StoredUsers(db[resp[p].sessionId]) :
             StoredUsers(db[resp[p].sessionId])[k].lastSeen < clock

\* C10 as stated: whatever a create request carries, the session it stores
\* has canonical data null, an empty roster and an empty update log.
C10_CreateStoresNull ==
    \A p \in SerialProcs :
       (Succeeded(p, "create") /\ Stored(resp[p].sessionId)) =>
          /\ StoredData(db[resp[p].sessionId]) = Null
          /\ StoredUsers(db[resp[p].sessionId]) = <<>>
          /\ StoredLog(db[resp[p].sessionId]) = <<>>

\* C10 amended: a successful create stores a session with an empty roster
\* and an empty update log, whose canonical data is the data of the request
\* when that is supplied and null otherwise; a get right after it returns
\* that data and userCount 0.
C10_CreateSeedsData ==
    [][\A p \in SerialProcs :
         Returns(p, "create") =>
            \A s \in {resp'[p].sessionId}, d \in CreateInputs :
               Create(p, s, d) =>
                  /\ s \notin DOMAIN db
                  /\ StoredData(db'[s]) = (IF d \in {Undef, Null, ""} THEN Null ELSE d)
                  /\ StoredUsers(db'[s]) = <<>>
                  /\ StoredLog(db'[s]) = <<>>
                  /\ GetResponse(s, Parse(db'[s].data)).body.data = StoredData(db'[s])
                  /\ GetResponse(s, Parse(db'[s].data)).body.userCount = 0
                  /\ OthersUnchanged(s)]_vars

\* a create that carried data d1 stored it as the canonical data
C10_SeededWitness ==
    \E p \in SerialProcs :
       /\ Succeeded(p, "create")
       /\ Stored(resp[p].sessionId)
       /\ StoredData(db[resp[p].sessionId]) = "d1"
       /\ StoredUsers(db[resp[p].sessionId]) = <<>>


\* C11: a successful join by userId u stores u in the roster with joinedAt
\* and lastSeen equal to the time of the join, and the userCount it returns
\* is the size of that roster; when initialData is supplied it becomes the
\* canonical data whatever the session held, and the join response and a
\* following get return it; when it is not supplied the canonical data is
\* as before.
C11_JoinRegistersAndSeeds ==
    [][\A p \in SerialProcs : Returns(p, "join") =>
       LET s == resp'[p].sessionId
           users == StoredUsers(db'[s])
       IN  \A u \in UserIdInputs, d \in InitialInputs :
              Join(p, s, u, d) =>
                 /\ u \in DOMAIN users
                 /\ users[u].joinedAt = clock
                 /\ users[u].lastSeen = clock
                 /\ u \in UserIds => users[u].id = u
                 /\ resp'[p].body.userCount = Cardinality(DOMAIN users)
                 /\ resp'[p].body.userCount >= 1
                 /\ IF d \in {Undef, Null, ""}
                    THEN /\ StoredData(db'[s]) = StoredData(db[s])
                         /\ resp'[p].body.data = StoredData(db[s])
                    ELSE /\ StoredData(db'[s]) = d
                         /\ resp'[p].body.data = d
                         /\ GetResponse(s, Parse(db'[s].data)).body.data = d]_vars

\* a join by u1 carrying d2 replaced the d1 that the session held
C11_SeedOverwritesWitness ==
    \E p \in SerialProcs :
       /\ Succeeded(p, "join")
       /\ Stored(resp[p].sessionId)
       /\ snap[p] # NoData
       /\ snap[p].data = "d1"
       /\ resp[p].body.data = "d2"
       /\ StoredData(db[resp[p].sessionId]) = "d2"
       /\ "u1" \in DOMAIN StoredUsers(db[resp[p].sessionId])
       /\ StoredUsers(db[resp[p].sessionId])["u1"].joinedAt = clock


\* C12: with requests handled one at a time, a poll refreshes its caller's
\* lastSeen to the poll time before it prunes, so the caller stays in the
\* roster; a participant is removed only by its own leave, by a delete of
\* the session, or by a poll that finds it more than 5 minutes stale; and
\* every poll's userCount counts all that remain.  A participant that polls
\* at intervals shorter than 5 minutes is therefore never removed by a poll.
C12_PollingParticipantStays ==
    [][\A p \in SerialProcs : clock' = clock =>
       \A s \in DOMAIN db : \A k \in DOMAIN StoredUsers(db[s]) :
          LET seen == StoredUsers(db[s])[k].lastSeen
              gone == \/ s \notin DOMAIN db'
                      \/ k \notin DOMAIN StoredUsers(db'[s])
          IN  /\ gone =>
                   \/ resp'[p].action = "delete" /\ resp'[p].sessionId = s
                   \/ resp'[p].action = "leave" /\ Leave(p, s, k)
                   \/ /\ resp'[p].action = "poll"
                      /\ clock - seen > 300000
                      /\ ~Poll(p, s, k, 0)
              /\ (resp'[p].action = "poll" /\ resp'[p].sessionId = s) =>
                   /\ resp'[p].status = 200
                   /\ resp'[p].body.userCount =
                         Cardinality(DOMAIN StoredUsers(db'[s]))
                   /\ Poll(p, s, k, 0) =>
                         /\ ~gone
                         /\ StoredUsers(db'[s])[k].lastSeen = clock]_vars

\* u1 joined at Epoch and has polled at every clock value since; its poll
\* 400000 ms after the join removes u2, which joined with it and polled
\* once, and counts u1 alone
C12_StaysWitness ==
    \E p \in SerialProcs :
       /\ Succeeded(p, "poll")
       /\ clock = Epoch + 400000
       /\ Stored(resp[p].sessionId)
       /\ snap[p] # NoData
       /\ DOMAIN snap[p].users = {"u1", "u2"}
       /\ snap[p].users["u1"].joinedAt = Epoch
       /\ snap[p].users["u1"].lastSeen = Epoch + 200000
       /\ snap[p].users["u2"].lastSeen = Epoch
       /\ DOMAIN StoredUsers(db[resp[p].sessionId]) = {"u1"}
       /\ resp[p].body.userCount = 1


\* C13: expiresAt is set by create to the creation time plus 24 hours and
\* no later action changes it; a join, poll, update or get that names a
\* session whose row is in the table succeeds, also after the row's
\* expiresAt has passed.
C13_ExpiryIsPassive ==
    [][\A p \in SerialProcs : clock' = clock =>
       /\ \A s \in DOMAIN db \cap DOMAIN db' :
             db'[s].expiresAt = db[s].expiresAt
       /\ \A s \in DOMAIN db' \ DOMAIN db :
             db'[s].expiresAt = clock + 24 * 60 * 60 * 1000
       /\ (/\ resp'[p].action \in {"join", "poll", "update", "get"}
           /\ resp'[p].sessionId \in DOMAIN db) =>
             /\ resp'[p].status = 200
             /\ resp'[p].body.success]_vars

\* an update of a session whose expiresAt has passed replaced its data
C13_ExpiredUpdateWitness ==
    \E p \in SerialProcs :
       /\ Succeeded(p, "update")
       /\ resp[p].sessionId \in DOMAIN db
       /\ clock > db[resp[p].sessionId].expiresAt
       /\ snap[p] # NoData
       /\ snap[p].data = Null
       /\ StoredData(db[resp[p].sessionId]) = "d1"


\* a step in which mergeFromData of the flat-photo store (of the
\* category-aware store) is applied; call' holds its arguments
ReportMerged ==
    clock' = clock /\ call'.store = "report" /\ call'.op = "mergeFromData"
HomeMerged ==
    clock' = clock /\ call'.store = "home" /\ call'.op = "mergeFromData"

\* the value the payload carries for a key of one of its parts, undefined
\* when the part or the key is absent
Incoming(data, part, k) ==
    IF Has(data, part) /\ k \in DOMAIN data[part] THEN data[part][k] ELSE Undef

\* the conclusion the payload carries
IncomingConclusion(data) ==
    IF Has(data, "conclusion") THEN data.conclusion ELSE Undef

\* the properties of a photo entry that hold a string or an image
PhotoValueFields ==
    {"id", "description", "pn", "serialNumber", "partName", "quantity",
     "criticality", "imageData", "editedImageData"}

\* C14 as stated: in the category-aware store, whenever lastLocalEdit is
\* greater than the supplied serverTimestamp (any value >= 0) and greater
\* than 0, mergeFromData leaves inspection, categories, conclusion and
\* lastLocalEdit exactly as they were.
C14_LocalNewerIsNoop ==
    [][HomeMerged =>
         LET serverTimestamp == call'.args.serverTimestamp
         IN  (/\ serverTimestamp >= 0
              /\ home.lastLocalEdit > serverTimestamp
              /\ home.lastLocalEdit > 0) => home' = home]_vars

\* C16 as stated: in the category-aware store's merge an inspection field
\* is set to the incoming value only if that value is non-empty and either
\* the local value is empty or serverTimestamp > lastLocalEdit; a field
\* whose local value is non-empty while serverTimestamp is not greater than
\* lastLocalEdit keeps its local value; the conclusion follows the same rule.
C16_AdoptsOnlyOverEmptyOrOlder ==
    [][HomeMerged =>
         LET data == call'.args.data
             newer == call'.args.serverTimestamp > home.lastLocalEdit
         IN  /\ \A k \in InspectionFields :
                  LET localValue == home.inspection[k]
                      serverValue == Incoming(data, "inspection", k)
                  IN  /\ home'.inspection[k] # localValue =>
                           /\ home'.inspection[k] = serverValue
                           /\ NonEmpty(serverValue)
                           /\ ~NonEmpty(localValue) \/ newer
                      /\ NonEmpty(localValue) /\ ~newer =>
                           home'.inspection[k] = localValue
             /\ home'.conclusion # home.conclusion =>
                  /\ home'.conclusion = IncomingConclusion(data)
                  /\ NonEmpty(IncomingConclusion(data))
                  /\ ~NonEmpty(home.conclusion) \/ newer
             /\ NonEmpty(home.conclusion) /\ ~newer =>
                  home'.conclusion = home.conclusion]_vars

\* C15 as stated: in either store, when a local edit made at time t set an
\* inspection field, a photo field or the conclusion to a non-empty value
\* and mergeFromData is then called with a serverTimestamp earlier than t,
\* the field still holds the edited value after the merge.  (call holds the
\* edit, the latest operation before the merge; lastLocalEdit holds t.)
C15_LateResponseKeepsEdit ==
    [][(/\ clock' = clock
        /\ call'.op = "mergeFromData"
        /\ call.op \in {"updateInspection", "updatePhoto",
                        "updatePhotoInCategory", "setConclusion"}) =>
         LET before == IF call'.store = "report" THEN report ELSE home
             after == IF call'.store = "report" THEN report' ELSE home'
         IN  call'.args.serverTimestamp < before.lastLocalEdit =>
               /\ call.op = "updateInspection" =>
                    \A k \in DOMAIN call.args.data :
                       NonEmpty(call.args.data[k]) =>
                          after.inspection[k] = call.args.data[k]
               /\ call.op = "setConclusion" =>
                    (NonEmpty(call.args.text) =>
                       after.conclusion = call.args.text)
               /\ call.op = "updatePhoto" =>
                    \A i \in DOMAIN before.photos, f \in DOMAIN call.args.data :
                       (/\ before.photos[i].id = call.args.id
                        /\ NonEmpty(call.args.data[f])) =>
                          /\ i \in DOMAIN after.photos
                          /\ after.photos[i][f] = call.args.data[f]
               /\ call.op = "updatePhotoInCategory" =>
                    \A c \in DOMAIN before.categories :
                       before.categories[c].id = call.args.categoryId =>
                          \A i \in DOMAIN before.categories[c].photos,
                             f \in DOMAIN call.args.data :
                             (/\ before.categories[c].photos[i].id =
                                    call.args.photoId
                              /\ NonEmpty(call.args.data[f])) =>
                                \E d \in DOMAIN after.categories :
                                   /\ after.categories[d].id =
                                         call.args.categoryId
                                   /\ i \in DOMAIN after.categories[d].photos
                                   /\ after.categories[d].photos[i][f] =
                                         call.args.data[f]]_vars

\* C17: in the flat-photo store's mergeFromData every inspection field ends
\* as the incoming value when that value is not null, undefined or the empty
\* string, and as the local value when the incoming value is empty or the
\* field is absent from the payload, whatever serverTimestamp and
\* lastLocalEdit are.
C17_FlatInspectionMerge ==
    [][ReportMerged =>
         \A k \in InspectionFields :
            LET serverValue == Incoming(call'.args.data, "inspection", k)
            IN  report'.inspection[k] =
                   IF serverValue \notin {Null, Undef, ""}
                   THEN serverValue
                   ELSE report.inspection[k]]_vars

\* a merge stamped before the latest local edit has replaced one field by a
\* non-empty incoming value and kept another whose incoming value was empty
C17_KeptAndReplacedWitness ==
    /\ call.store = "report" /\ call.op = "mergeFromData"
    /\ call.args.data = [inspection |-> [tag |-> "", machinePhoto |-> "imgS"]]
    /\ call.args.serverTimestamp # 0
    /\ call.args.serverTimestamp < report.lastLocalEdit
    /\ report.inspection.tag = "L"
    /\ report.inspection.machinePhoto = "imgS"

\* C18 as stated: merging the flat-photo store with a payload identical to
\* its local state (same inspection, same photos, same conclusion) leaves
\* every field unchanged and the merge's hasChanges indicator is false.
C18_SelfMergeSignalsNoChanges ==
    [][(ReportMerged /\ call'.args.data = Report_getAllData(report)) =>
         /\ report' = report
         /\ ~call'.args.hasChanges]_vars

\* C20: the photo-sequence merge is positional.  When mergeFromData of the
\* flat-photo store is handed photos, the resulting sequence is as long as
\* the longer of the local and the incoming one; an index that only one
\* side has holds that side's entry unchanged; at an index both sides have,
\* each field is the incoming value if that is non-empty and the local one
\* otherwise, embeddedPhotos is the incoming sequence only if that is
\* non-empty, and hasAdditionalParts is the disjunction of both sides.
C20_PhotoMergeIsPositional ==
    [][(ReportMerged /\ Has(call'.args.data, "photos")) =>
         LET localPhotos == report.photos
             serverPhotos == call'.args.data.photos
             merged == report'.photos
         IN  /\ Len(merged) = IF Len(localPhotos) >= Len(serverPhotos)
                              THEN Len(localPhotos) ELSE Len(serverPhotos)
             /\ \A i \in DOMAIN merged :
                   IF i \notin DOMAIN serverPhotos
                   THEN merged[i] = localPhotos[i]
                   ELSE IF i \notin DOMAIN localPhotos
                   THEN merged[i] = serverPhotos[i]
                   ELSE /\ \A f \in PhotoValueFields :
                             merged[i][f] =
                                IF serverPhotos[i][f] \notin {Null, Undef, ""}
                                THEN serverPhotos[i][f]
                                ELSE localPhotos[i][f]
                        /\ merged[i].embeddedPhotos =
                             IF serverPhotos[i].embeddedPhotos # <<>>
                             THEN serverPhotos[i].embeddedPhotos
                             ELSE localPhotos[i].embeddedPhotos
                        /\ merged[i].hasAdditionalParts =
                             (localPhotos[i].hasAdditionalParts
                                \/ serverPhotos[i].hasAdditionalParts)]_vars

\* local <<A, B>> merged with incoming <<X>> has given <<merge(A, X), B>>
C20_MergedAXThenBWitness ==
    /\ call.store = "report" /\ call.op = "mergeFromData"
    /\ Has(call.args.data, "photos")
    /\ call.args.data.photos = <<PhotoX>>
    /\ Len(report.photos) = 2
    /\ report.photos[2] = PhotoB
    /\ report.photos[1] =
          [id |-> "x", description |-> "X", pn |-> "PA", serialNumber |-> "SX",
           partName |-> "", quantity |-> "", criticality |-> "",
           imageData |-> "imgA", editedImageData |-> "editX",
           embeddedPhotos |-> <<"e1">>, hasAdditionalParts |-> TRUE]

\* merging a paired local and incoming photo has left no field empty that
\* was non-empty on either side
PhotoKeepsFields(localPhoto, serverPhoto, mergedPhoto) ==
    /\ \A f \in PhotoValueFields :
          NonEmpty(localPhoto[f]) \/ NonEmpty(serverPhoto[f]) =>
             NonEmpty(mergedPhoto[f])
    /\ localPhoto.embeddedPhotos # <<>> \/ serverPhoto.embeddedPhotos # <<>> =>
          mergedPhoto.embeddedPhotos # <<>>

\* the flat-photo store's merge leaves no inspection field and no field of
\* a positionally paired photo empty that was non-empty locally or in the
\* payload (an inspection field the payload does not carry has no incoming
\* value), nor the conclusion when incomingConclusion is the incoming one
ReportKeepsFields(incomingConclusion) ==
    LET data == call'.args.data
    IN  /\ \A k \in InspectionFields :
              NonEmpty(report.inspection[k]) => NonEmpty(report'.inspection[k])
        /\ Has(data, "inspection") =>
              \A k \in DOMAIN data.inspection :
                 NonEmpty(data.inspection[k]) => NonEmpty(report'.inspection[k])
        /\ NonEmpty(report.conclusion) \/ NonEmpty(incomingConclusion) =>
              NonEmpty(report'.conclusion)
        /\ Has(data, "photos") =>
              \A i \in DOMAIN report.photos \cap DOMAIN data.photos :
                 /\ i \in DOMAIN report'.photos
                 /\ PhotoKeepsFields(report.photos[i], data.photos[i],
                                     report'.photos[i])

\* the same of the category-aware store's merge, photos being paired
\* within the categories that share an identifier
HomeKeepsFields ==
    LET data == call'.args.data
    IN  /\ \A k \in InspectionFields :
              NonEmpty(home.inspection[k]) => NonEmpty(home'.inspection[k])
        /\ Has(data, "inspection") =>
              \A k \in DOMAIN data.inspection :
                 NonEmpty(data.inspection[k]) => NonEmpty(home'.inspection[k])
        /\ NonEmpty(home.conclusion) \/ NonEmpty(IncomingConclusion(data)) =>
              NonEmpty(home'.conclusion)
        /\ Has(data, "categories") =>
              \A c \in DOMAIN home.categories, d \in DOMAIN data.categories :
                 home.categories[c].id = data.categories[d].id =>
                    \E m \in DOMAIN home'.categories :
                       /\ home'.categories[m].id = home.categories[c].id
                       /\ \A i \in DOMAIN home.categories[c].photos
                                     \cap DOMAIN data.categories[d].photos :
                             /\ i \in DOMAIN home'.categories[m].photos
                             /\ PhotoKeepsFields(
                                   home.categories[c].photos[i],
                                   data.categories[d].photos[i],
                                   home'.categories[m].photos[i])

\* C19 as stated: for every inspection field, every field of a
\* positionally paired photo and the conclusion, in both stores and for
\* every pair of timestamps, merging local value L with incoming value S
\* never yields an empty result when L or S is non-empty.
C19_NeverEmptiesAnyMerge ==
    [][/\ ReportMerged => ReportKeepsFields(IncomingConclusion(call'.args.data))
       /\ HomeMerged => HomeKeepsFields]_vars

\* C19, amended: the same holds of the flat-photo store's merge when an
\* incoming conclusion of white space only counts as empty, and of the
\* category-aware store's merge whenever the merge is not skipped, that is
\* unless lastLocalEdit is greater than 0 and greater than the server time
\* (serverTimestamp when that is supplied and not 0, the current time
\* otherwise).
C19_NeverEmptiesAppliedMerge ==
    [][/\ ReportMerged =>
            LET S == IncomingConclusion(call'.args.data)
            IN  ReportKeepsFields(IF S = " " THEN "" ELSE S)
       /\ HomeMerged =>
            LET serverTimestamp == call'.args.serverTimestamp
                serverTime == IF serverTimestamp # 0 THEN serverTimestamp
                              ELSE clock
                skipped == /\ home.lastLocalEdit > 0
                           /\ home.lastLocalEdit > serverTime
            IN  skipped \/ HomeKeepsFields]_vars

\* a merge of the category-aware store that was not skipped although the
\* store had been edited: it filled an empty field from the payload and
\* kept a populated one whose incoming value was empty
C19_FilledAndKeptWitness ==
    /\ call.store = "home" /\ call.op = "mergeFromData"
    /\ call.args.data = [inspection |-> [tag |-> "", machinePhoto |-> "imgS"]]
    /\ home.lastLocalEdit > 0
    /\ home.inspection.tag = "L"
    /\ home.inspection.machinePhoto = "imgS"

\* the identifiers of a photo sequence, and whether they are pairwise
\* distinct
PhotoIds(photos) == {photos[i].id : i \in DOMAIN photos}
DistinctIds(photos) ==
    \A i \in DOMAIN photos, j \in DOMAIN photos :
       i # j => photos[i].id # photos[j].id

\* C21 as stated: when the local and the incoming photo sequence each hold
\* pairwise distinct identifiers, the sequence the photo-sequence merge
\* produces holds pairwise distinct identifiers too, and every identifier
\* in it is the identifier of an input photo.
C21_MergeKeepsIdsDistinct ==
    [][(ReportMerged /\ Has(call'.args.data, "photos")) =>
         LET localPhotos == report.photos
             serverPhotos == call'.args.data.photos
         IN  (DistinctIds(localPhotos) /\ DistinctIds(serverPhotos)) =>
                /\ DistinctIds(report'.photos)
                /\ PhotoIds(report'.photos) \subseteq
                      PhotoIds(localPhotos) \cup PhotoIds(serverPhotos)]_vars


\* the identifiers of a category sequence
CategoryIds(categories) == {categories[i].id : i \in DOMAIN categories}

\* C22: the category-sequence merge is driven by the incoming list.  When
\* the local and the incoming category list are both non-empty, the result
\* holds exactly the incoming categories' identifiers in incoming order; an
\* incoming category without a local category of its identifier is adopted
\* whole; one with a local match has its photos merged by the
\* photo-sequence merge and takes the incoming additional-parts list only if
\* that is non-empty, else the local one; a category only the local side
\* has is absent from the result.  When the incoming list is empty the
\* local list is kept.
C22_CategoryMergeFollowsIncoming ==
    [][(HomeMerged /\ Has(call'.args.data, "categories")) =>
         LET localCats == home.categories
             serverCats == call'.args.data.categories
             merged == home'.categories
         IN  /\ serverCats = <<>> => merged = localCats
             /\ (localCats # <<>> /\ serverCats # <<>>) =>
                  /\ Len(merged) = Len(serverCats)
                  /\ \A i \in DOMAIN serverCats :
                        /\ merged[i].id = serverCats[i].id
                        /\ serverCats[i].id \notin CategoryIds(localCats) =>
                              merged[i] = serverCats[i]
                        /\ \A j \in DOMAIN localCats :
                              localCats[j].id = serverCats[i].id =>
                                 /\ merged[i].photos =
                                       mergePhotos(localCats[j].photos,
                                                   serverCats[i].photos)
                                 /\ merged[i].additionalParts =
                                       IF serverCats[i].additionalParts # <<>>
                                       THEN serverCats[i].additionalParts
                                       ELSE localCats[j].additionalParts
                  /\ \A j \in DOMAIN localCats :
                        localCats[j].id \notin CategoryIds(serverCats) =>
                           localCats[j].id \notin CategoryIds(merged)]_vars

\* incoming <<X, Y>> met a local c1 that held photos A and B and the part
\* p1: c1 has its photos merged in place and keeps p1, c2 is adopted whole,
\* and the result holds nothing else
C22_MergedAndAdoptedWitness ==
    /\ call.store = "home" /\ call.op = "mergeFromData"
    /\ Has(call.args.data, "categories")
    /\ call.args.data.categories = <<CategoryX, CategoryY>>
    /\ Len(home.categories) = 2
    /\ home.categories[1] =
          [id |-> "c1", photos |-> mergePhotos(<<PhotoA, PhotoB>>, <<PhotoX>>),
           additionalParts |-> <<PartP1>>]
    /\ home.categories[2] = CategoryY


\* C23 as stated: whenever the category-aware store loads a persisted
\* snapshot whose category list holds an identifier that is not in the
\* valid category set, whatever version the snapshot carries, the loaded
\* state holds none of the invalid categories and holds every valid
\* persisted category unchanged and in the same order.
C23_LoadDropsInvalidCategories ==
    [][(clock' = clock /\ call'.store = "home" /\ call'.op = "rehydrate") =>
         LET persisted == call'.args.persistedState.categories
             valid == {DEFAULT_CATEGORIES[i].id : i \in DOMAIN DEFAULT_CATEGORIES}
         IN  (\E i \in DOMAIN persisted : persisted[i].id \notin valid) =>
                home'.categories =
                   SelectSeq(persisted, LAMBDA cat : cat.id \in valid)]_vars


\* the operations that change the report locally: field update, photo
\* add, remove and update, additional-part add, remove and update,
\* conclusion change, bulk replace
LocalMutations ==
    {"updateInspection", "setPhotos", "addPhoto", "removePhoto", "updatePhoto",
     "setPhotoCount", "addAdditionalPart", "removeAdditionalPart",
     "updateAdditionalPart", "setAdditionalParts", "setConclusion",
     "setCategories", "addPhotoToCategory", "removePhotoFromCategory",
     "updatePhotoInCategory", "addAdditionalPartToCategory",
     "removeAdditionalPartFromCategory"}

\* lastLocalEdit of the store the page imports, before and after a step
EditTime == IF call.store = "report" THEN report.lastLocalEdit
            ELSE home.lastLocalEdit
EditTimeAfter == IF call.store = "report" THEN report'.lastLocalEdit
                 ELSE home'.lastLocalEdit

\* C24: in both stores loadFromData and mergeFromData leave lastLocalEdit
\* exactly as it was, for every payload and every serverTimestamp, while
\* every local mutating operation sets lastLocalEdit to the current time.
C24_OnlyLocalEditsStamp ==
    [][clock' = clock =>
         /\ call'.op \in {"loadFromData", "mergeFromData"} =>
               EditTimeAfter = EditTime
         /\ call'.op \in LocalMutations => EditTimeAfter = clock]_vars

\* the category-aware store was edited at Epoch and, a millisecond later,
\* loaded a payload: its content is the payload's and lastLocalEdit is
\* still Epoch
C24_LoadedAfterEditWitness ==
    /\ call.store = "home" /\ call.op = "loadFromData"
    /\ call.args.data # <<>>
    /\ clock = Epoch + 1
    /\ home.lastLocalEdit = Epoch
    /\ home.conclusion = "L"
    /\ home.categories = <<CategoryA>>


\* C25 as stated: with a non-decreasing clock, over every sequence of store
\* operations lastLocalEdit never decreases except when clearAll resets it
\* to 0, and it is 0 exactly when no local mutation has happened since the
\* store was created or last cleared (it is 0 after clearAll, not 0 after a
\* local mutation, and any other operation leaves it 0 or leaves it not 0).
C25_EditTimeMonotonic ==
    [][clock' = clock =>
         /\ EditTimeAfter >= EditTime \/ call'.op = "clearAll"
         /\ call'.op = "clearAll" => EditTimeAfter = 0
         /\ call'.op \in LocalMutations => EditTimeAfter # 0
         /\ call'.op \notin LocalMutations \cup {"clearAll"} =>
               (EditTimeAfter = 0 <=> EditTime = 0)]_vars


\* C26 as stated: the lastUpdated of a stored session changes only in an
\* action that writes its canonical data (a join with initialData, a full
\* update; create stores the session to begin with), and is unchanged by
\* field-scoped updates, polls, leaves, gets and joins without initialData.
C26_LastUpdatedTracksData ==
    [][\A p \in SerialProcs : clock' = clock =>
         \A s \in DOMAIN db \cap DOMAIN db' :
            \/ db'[s].data.lastUpdated = db[s].data.lastUpdated
            \/ \E u \in UserIdInputs, d \in InitialInputs \ {Undef} :
                  Join(p, s, u, d)
            \/ \E u \in UpdaterIds, t \in TypeInputs \ {"field"},
                  d \in DataInputs, f \in FieldInputs, v \in ValueInputs,
                  ts \in StampInputs :
                  Update(p, s, u, t, d, f, v, ts)]_vars


\* C27 as stated: whatever timestamp the client supplies (absent, 0, more
\* than 5 minutes in the past, in the future), the event that a successful
\* update appends is in the stored update log when the update returns, and
\* a poll with lastUpdate = 0 issued right afterwards returns it.
C27_UpdateIsDiscoverable ==
    [][\A p \in SerialProcs : Returns(p, "update") =>
       \A s \in {resp'[p].sessionId}, u \in UpdaterIds,
          t \in TypeInputs, d \in DataInputs, f \in FieldInputs,
          v \in ValueInputs, ts \in StampInputs :
          \/ LET at == IF ts = 0 THEN clock ELSE ts
                 appended(e) == e.userId = u /\ e.timestamp = at
                 polled == PollResponse(PollApply(Parse(db'[s].data), u, clock),
                                        0, clock).body.updates
             IN  /\ \E i \in DOMAIN StoredLog(db'[s]) :
                       appended(StoredLog(db'[s])[i])
                 /\ \E i \in DOMAIN polled : appended(polled[i])
          \/ ~Update(p, s, u, t, d, f, v, ts)]_vars

(* ---- a participant that polls with the cursor of its previous poll ---- *)

\* the participant that polls and the one that sends updates
Poller == "u1"
Other == "u2"

\* the clock values visited are single milliseconds apart, so any two polls
\* are less than the inactivity window apart
PollerOffsets == {0, 1, 2}

\* timestamp of the other participant's update requests: absent, and the
\* reading of a client clock that is behind the server's
PollerStamps == {0, Epoch - 1}

\* what the polling participant holds between two polls: the lastUpdate of
\* its next poll, and for every position of the stored update log the
\* number of its polls that returned the event at that position
PollerCall(lastUpdate, returned) ==
    [store |-> "poller", op |-> "poll",
     args |-> [lastUpdate |-> lastUpdate, returned |-> returned]]

\* a session that both participants have joined; the poller has not polled
InitPoller ==
    /\ clock = Epoch
    /\ db = [s \in MintIds |->
               [NewRow(Undef, Epoch) EXCEPT !.data =
                  Stringify(JoinApply(JoinApply(Parse(@), Poller, Undef,
                                                Epoch),
                                      Other, Undef, Epoch))]]
    /\ pc = [p \in Procs |-> "idle"]
    /\ req = [p \in Procs |-> NoReq]
    /\ snap = [p \in Procs |-> NoData]
    /\ local = [p \in Procs |-> NoData]
    /\ resp = [p \in Procs |-> NoResp]
    /\ report = NoStore
    /\ home = NoStore
    /\ call = PollerCall(0, <<>>)

TickPoller ==
    /\ \E d \in PollerOffsets : Epoch + d > clock /\ clock' = Epoch + d
    /\ UNCHANGED <<db, pc, req, snap, local, resp, client>>

\* case 'poll', requested with the timestamp of the previous poll's
\* response as lastUpdate (0 at the first poll)
PollerPoll(p, s) ==
    /\ Idle(p)
    /\ Stored(s)
    /\ LET lastUpdate == call.args.lastUpdate
           returned == call.args.returned
           parsed == Session(s)
           sessionData == PollApply(parsed, Poller, clock)
           response == PollResponse(sessionData, lastUpdate, clock)
           log == sessionData.updates
       IN  /\ Parsed(p, parsed)
           /\ WriteBack(s, Stringify(sessionData))
           /\ Respond(p, "poll", s, response)
           /\ call' = PollerCall(response.body.timestamp,
                        [i \in DOMAIN log |->
                           (IF i \in DOMAIN returned THEN returned[i] ELSE 0)
                           + (IF log[i].timestamp > NumOrElse(lastUpdate, 0)
                              THEN 1 ELSE 0)])
    /\ UNCHANGED <<clock, pc, req, local, report, home>>

\* requests are handled one at a time
NextPoller ==
    \/ TickPoller
    \/ \E p \in SerialProcs, s \in MintIds : PollerPoll(p, s)
    \/ \E p \in SerialProcs, s \in MintIds, t \in {"full", "field"},
          d \in DataInputs, f \in FieldInputs, v \in ValueInputs,
          ts \in PollerStamps :
         Update(p, s, Other, t, d, f, v, ts)

SpecPoller == InitPoller /\ [][NextPoller]_vars

\* C28 as stated: the participant polls repeatedly, less than 5 minutes
\* apart, each time with the server timestamp of its previous poll as
\* lastUpdate (0 the first time); then every event another participant has
\* appended is returned to it by exactly one of its polls, so once it has
\* polled, every event in the stored log has been returned to it once and
\* only once.
C28_NoUpdateMissed ==
    [][\A p \in SerialProcs, s \in MintIds :
         PollerPoll(p, s) =>
           \A i \in DOMAIN Parse(db'[s].data).updates :
              /\ i \in DOMAIN call'.args.returned
              /\ call'.args.returned[i] = 1]_vars


\* C29 as stated: whenever a request on an existing session changes the
\* session's canonical data (a full update, or a join with initialData),
\* the stored update log gains an event that carries the new data, and a
\* poll whose lastUpdate is earlier than the change returns that event.
C29_DataChangeIsLogged ==
    [][\A s \in DOMAIN db \cap DOMAIN db' :
         LET before == Parse(db[s].data)
             after == Parse(db'[s].data)
             polled == PollResponse(PollApply(after, Other, clock),
                                    clock - 1, clock).body.updates
         IN  (clock' = clock /\ after.data # before.data) =>
                /\ after.updates # before.updates
                /\ \E i \in DOMAIN after.updates :
                      after.updates[i].data = after.data
                /\ \E i \in DOMAIN polled : polled[i].data = after.data]_vars


\* C30 as stated: after every successful poll with userId u, whether or not
\* u had joined and whether or not an earlier poll had pruned u, the stored
\* roster holds u with lastSeen equal to the time of the poll, and the
\* returned userCount counts the stored roster, u included.
C30_PollerIsCounted ==
    [][\A p \in SerialProcs : Returns(p, "poll") =>
       \A s \in {resp'[p].sessionId}, u \in RosterUsers :
          \/ LET users == Parse(db'[s].data).users
             IN  /\ Key(u) \in DOMAIN users
                 /\ users[Key(u)].lastSeen = clock
                 /\ resp'[p].body.userCount = UserCount(users)
          \/ ~Poll(p, s, u, 0)]_vars


(* ------------- a delete that overtakes requests in flight ------------- *)

\* requests are handled concurrently, interleaved at their awaits, and a
\* delete (one await, then the return) is handled on any slot between them
NextDelete ==
    \/ Tick
    \/ \E p \in Procs, r \in Requests : Fetch(p, r)
    \/ \E p \in Procs : Commit(p)
    \/ \E p \in Procs : Reply(p)
    \/ \E p \in Procs, s \in MintIds : Delete(p, s)

SpecDelete == InitConc /\ [][NextDelete]_vars

\* slot p has read its session and not yet written it back, and the
\* session has been deleted meanwhile
Overtaken(p) == pc[p] = "fetched" /\ ~Stored(req[p].sessionId)

\* C31: when a join, leave, poll or update has read a session and a delete
\* of that session completes before the write-back, the write-back leaves
\* the store without a session of that id and the request is answered
\* without success; nor does any other step of a handler bring a deleted
\* session back.
C31_DeletedStaysDeleted ==
    [][/\ \A p \in Procs :
            (Overtaken(p) /\ pc'[p] # "fetched") =>
               /\ ~Stored(req[p].sessionId)'
               /\ resp'[p].action = req[p].action
               /\ resp'[p].status # 200
               /\ resp'[p].body.success = FALSE
       /\ \A s \in MintIds : ~Stored(s) => ~Stored(s)']_vars

\* an update that was overtaken by a delete has been answered
C31_OvertakenWitness ==
    /\ ~Stored("s1")
    /\ \E p \in Procs :
          /\ pc[p] = "idle"
          /\ req[p] # NoReq
          /\ req[p].action = "update"
          /\ resp[p].action = "update"
          /\ resp[p].status = 500


(* ------------- the photo operations of the flat-photo store ------------ *)

\* the operations that set photos or photoCount, in any order
NextPhotoOps ==
    \/ Report_addPhoto
    \/ \E id \in PhotoIdInputs : Report_removePhoto(id)
    \/ \E photos \in {<<PhotoA>>} : Report_setPhotos(photos)
    \/ \E count \in PhotoCountInputs : Report_setPhotoCount(count)
    \/ \E data \in LoadPayloads : Report_loadFromData(data)
    \/ \E data \in LoadPayloads, serverTimestamp \in ReportStamps :
         Report_mergeFromData(data, serverTimestamp)
    \/ Report_clearAll

SpecPhotoOps == InitReport /\ [][NextPhotoOps]_vars

\* C32 as stated: after every sequence of addPhoto, removePhoto (also with
\* an identifier that matches no photo), setPhotos, setPhotoCount,
\* loadFromData, mergeFromData and clearAll, photoCount equals the length
\* of the photos sequence and is not negative.
C32_PhotoCountIsLength ==
    /\ report.photoCount = Len(report.photos)
    /\ report.photoCount >= 0


=============================================================================
